---- MODULE Spec2Model ----
EXTENDS Integers, Sequences, FiniteSets, TLC

(***************************************************************************)
(* Model of the tool layer of the test framework: the per-node tool cache  *)
(* (node.tools[...]), the kdump tool family of lisa/tools/kdump.py, the    *)
(* bounded retry used by the crash-kernel checks and the file poll of the  *)
(* time-sync suite.                                                        *)
(***************************************************************************)

VARIABLES
    os,            \* node -> [name, version]: the node's operating system
    cache,         \* node -> (tool id -> cached instance or NoTool)
    present,       \* node -> set of commands that exist on the remote node
    kexecVersion,  \* node -> version of the kexec binary on the node (<<>>: none)
    created,       \* node -> (tool id -> number of instances created so far)
    installs,      \* node -> (tool id -> number of runs of the install procedure)
    enabled,       \* node -> set of service names enabled on the node
    ncalls,        \* number of calls made so far (bounds the run)
    call,          \* the last call: [op, node, tool, hit]
    log,           \* events of the last call, in order
    result,        \* instance returned by the last call (NoTool: none)
    err,           \* error raised by the last call (NoErr: none)
    \* the bounded retry (the retry decorator around an operation)
    rOp,           \* the decorated operation being called ("": none)
    rPc,           \* "idle", "running", "returned" or "raised"
    rTries,        \* attempts left (_tries of the retry loop)
    rAttempts,     \* invocations of the operation made by this call
    rSlept,        \* seconds slept between the attempts of this call
    rInput,        \* what the node answered to the last attempt
    rResult,       \* value the call returned
    rErr,          \* error the call raised
    \* the file poll (_wait_file_changed)
    pPc,           \* "idle", "polling" or "done"
    pExpected,     \* expected_value: [list, values]
    pNow,          \* elapsed time of the timer, in sleep intervals
    pLastCheck,    \* elapsed time read by the last loop test
    pLastDur,      \* duration of the last read
    pReads,        \* reads made so far
    pSleeps,       \* sleeps made so far
    pFirst,        \* "none", or whether the first read matched: "match", "miss"
    pLast,         \* "none", or whether the last read matched: "match", "miss"
    pResult,       \* the returned boolean
    \* check_crashkernel_loaded on one node
    kPc,           \* "idle", "flag" (in the retried flag check), "returned", "raised"
    kArg,          \* crashkernel_memory, the requested value
    kCmdline,      \* content of /proc/cmdline on the node
    kFlagExists,   \* whether /sys/kernel/kexec_crash_loaded exists
    kFlag,         \* what cat prints for /sys/kernel/kexec_crash_loaded
    kIomem,        \* content of /proc/iomem on the node
    kChecks,       \* the checks made by the call, in order
    kErr,          \* error the call raised
    \* operations of a kdump tool instance and of Kexec on one node
    oOs,           \* the node's operating system: [name, version]
    oDumpPath,     \* dump_path of the tool instance
    oVmcore,       \* directories of the node that hold a file larger than 10M
    oConf,         \* lines of /etc/kdump.conf
    oCfgExists,    \* whether the crashkernel config file exists
    oCfg,          \* lines of the crashkernel config file
    oCatCache,     \* cached output of cat <config file> (NoCache: none)
    oCalls,        \* operations called so far (bounds the run)
    oOp,           \* the last operation: [name, arg]
    oLog,          \* remote commands of the last operation: [cmd, sudo, exit, out]
    oErr,          \* error the last operation raised
    \* one object with lazy initialisation (InitializableMixin)
    iInitialized,  \* _is_initialized
    iRuns,         \* invocations of _initialize so far
    iDone,         \* successful completions of _initialize so far
    iTrace,        \* the initialize() calls so far: [ran, body, err]
    \* version texts and versions
    vText,         \* the text given to parse_version
    vOut,          \* what parse_version did with it: [ok, value, err]
    vVersions,     \* three versions <<a, b, c>> to compare
    vCmp,          \* the comparisons made: [ab, ba, bc, ac], each -1, 0 or 1
    \* one file of a node as read through the Cat tool
    cPath,         \* the file
    cContent,      \* its content on the node now
    cCached,       \* the Cat tool's cached output for it (NoneValue: none)
    cRead,         \* the last read: [site, stdout, before (the cache before it)]
    \* one call of a function of lisa.util or of the network test suite
    uIn,           \* the function and its arguments
    uOut           \* what the call did: its result, or the steps it took

regVars == <<os, cache, present, kexecVersion, created, installs, enabled,
             ncalls, call, log, result, err>>

retryVars == <<rOp, rPc, rTries, rAttempts, rSlept, rInput, rResult, rErr>>

pollVars == <<pPc, pExpected, pNow, pLastCheck, pLastDur, pReads, pSleeps,
              pFirst, pLast, pResult>>

kdVars == <<kPc, kArg, kCmdline, kFlagExists, kFlag, kIomem, kChecks, kErr>>

\* the state of the operations other than resolve, retry and poll
opVars == <<oOs, oDumpPath, oVmcore, oConf, oCfgExists, oCfg, oCatCache, oCalls,
            oOp, oLog, oErr>>

initVars == <<iInitialized, iRuns, iDone, iTrace>>

verVars == <<vText, vOut, vVersions, vCmp>>

readVars == <<cPath, cContent, cCached, cRead>>

utilVars == <<uIn, uOut>>

extVars == <<kdVars, opVars, initVars, verVars, readVars, utilVars>>

vars == <<regVars, retryVars, pollVars, extVars>>

----------------------------------------------------------------------------
(* Bounds of the model *)

\* network interfaces of a node in the SR-IOV connection test
MaxNics == 2

\* nodes of the environment given to remove_extra_nics
MaxNodes == 3

\* extra network interfaces of a node
MaxExtra == 3

\* lines of the text given to find_patterns_groups_in_lines
MaxLines == 2

MaxCalls == 2

\* longest read of the polled file, in sleep intervals
MaxReadTicks == 2

\* longest sequence of tool operations on one node
MaxOps == 2

\* longest sequence of initialize() calls on one object
MaxInits == 4

\* longest generated text given to parse_version
MaxLen == 5

Nodes == {"n1", "n2"}

----------------------------------------------------------------------------
(* Operating systems (lisa.operating_system, referred to by isinstance) *)

OsChoices ==
    { [name |-> "Redhat",  version |-> <<7, 9, 0>>],
      [name |-> "CentOs",  version |-> <<8, 0, 0>>],
      [name |-> "Debian",  version |-> <<10, 0, 0>>],
      [name |-> "Ubuntu",  version |-> <<18, 4, 0>>],
      [name |-> "Suse",    version |-> <<15, 0, 0>>],
      [name |-> "FreeBSD", version |-> <<12, 0, 0>>],
      [name |-> "Windows", version |-> <<10, 0, 0>>] }

\* the operating systems of the two nodes of a run: the same or another family
Partner(name) ==
    CASE name = "Redhat"  -> "CentOs"
      [] name = "CentOs"  -> "Debian"
      [] name = "Debian"  -> "Ubuntu"
      [] name = "Ubuntu"  -> "Suse"
      [] name = "Suse"    -> "Suse"
      [] name = "FreeBSD" -> "Windows"
      [] name = "Windows" -> "Redhat"

OsAssignments ==
    { f \in [Nodes -> OsChoices] : f["n2"].name = Partner(f["n1"].name) }

\* isinstance(node.os, Redhat | Debian | Suse): the family of an OS class
Family(o) ==
    CASE o.name \in {"Redhat", "CentOs"} -> "Redhat"
      [] o.name \in {"Debian", "Ubuntu"} -> "Debian"
      [] o.name = "Suse"                 -> "Suse"
      [] OTHER                           -> "Other"

\* isinstance(node.os, Posix)
IsPosix(o) == o.name # "Windows"

----------------------------------------------------------------------------
(* Exceptions (lisa/util/__init__.py) *)

NoVersion == <<>>

NoErr == [type |-> "None", name |-> "", version |-> NoVersion, detail |-> ""]

Error(type, detail) ==
    [type |-> type, name |-> "", version |-> NoVersion, detail |-> detail]

\* class LisaException(Exception)
LisaException(detail) == Error("LisaException", detail)

\* class MissingPackagesException(LisaException): carries the package names
MissingPackagesException(package) == Error("MissingPackagesException", package)

\* class UnsupportedDistroException(LisaException): __init__ copies os.name and
\* os.information.version
UnsupportedDistroException(o) ==
    [type |-> "UnsupportedDistroException", name |-> o.name,
     version |-> o.version, detail |-> ""]

\* a failed assert statement or assert_exit_code
AssertionError(detail) == Error("AssertionError", detail)

\* the registry's error for a tool that cannot be located
MissingCapabilityError(tool) == Error("MissingCapabilityError", tool)

\* the subclass relation of the exception types
IsInstance(type, base) ==
    \/ type = base
    \/ /\ base = "LisaException"
       /\ type \in {"MissingPackagesException", "UnsupportedDistroException",
                    "MissingCapabilityError"}
    \/ base = "Exception" /\ type # "None"

----------------------------------------------------------------------------
(* Text and numbers (Python str, int, float)                                *)

\* Python's None, different from every string
NoneValue == "<None>"

\* Python's "sub in text" on strings
Contains(text, sub) ==
    \E i \in 1..(Len(text) - Len(sub) + 1) :
        SubSeq(text, i, i + Len(sub) - 1) = sub

\* str.startswith
StartsWith(text, prefix) ==
    Len(text) >= Len(prefix) /\ SubSeq(text, 1, Len(prefix)) = prefix

Digits == {"0", "1", "2", "3", "4", "5", "6", "7", "8", "9"}

IsDigits(text) == \A i \in 1..Len(text) : SubSeq(text, i, i) \in Digits

DigitValue(c) ==
    CASE c = "0" -> 0 [] c = "1" -> 1 [] c = "2" -> 2 [] c = "3" -> 3
      [] c = "4" -> 4 [] c = "5" -> 5 [] c = "6" -> 6 [] c = "7" -> 7
      [] c = "8" -> 8 [] c = "9" -> 9

RECURSIVE DigitsValue(_)
\* the number a non-empty text of decimal digits denotes
DigitsValue(text) ==
    IF Len(text) = 0 THEN 0
    ELSE 10 * DigitsValue(SubSeq(text, 1, Len(text) - 1))
         + DigitValue(SubSeq(text, Len(text), Len(text)))

\* the exception of int("") and float("x")
ValueError(detail) == Error("ValueError", detail)

\* int(text) for a text of digits: the empty text is a ValueError
int(text) ==
    IF Len(text) = 0 \/ ~IsDigits(text)
    THEN [ok |-> FALSE, value |-> 0, err |-> ValueError("invalid literal for int()")]
    ELSE [ok |-> TRUE, value |-> DigitsValue(text), err |-> NoErr]

RECURSIVE lstrip(_, _)
lstrip(text, chars) ==
    IF Len(text) > 0 /\ SubSeq(text, 1, 1) \in chars
    THEN lstrip(SubSeq(text, 2, Len(text)), chars)
    ELSE text

RECURSIVE rstrip(_, _)
rstrip(text, chars) ==
    IF Len(text) > 0 /\ SubSeq(text, Len(text), Len(text)) \in chars
    THEN rstrip(SubSeq(text, 1, Len(text) - 1), chars)
    ELSE text

\* str.strip(chars): chars is the set of characters to remove at both ends
strip(text, chars) == rstrip(lstrip(text, chars), chars)

\* the position of the first "." of a text, 0 when it has none
DotAt(text) ==
    IF \E i \in 1..Len(text) : SubSeq(text, i, i) = "."
    THEN CHOOSE i \in 1..Len(text) :
           /\ SubSeq(text, i, i) = "."
           /\ \A j \in 1..(i - 1) : SubSeq(text, j, j) # "."
    ELSE 0

\* float(text) for the decimal notations "d", "d.", ".d" and "d.d" with at most
\* one digit after the point, in tenths; a ValueError for any other text
float(text) ==
    LET dot  == DotAt(text)
        whole == IF dot = 0 THEN text ELSE SubSeq(text, 1, dot - 1)
        frac == IF dot = 0 THEN "" ELSE SubSeq(text, dot + 1, Len(text))
    IN IF IsDigits(whole) /\ IsDigits(frac) /\ Len(whole) + Len(frac) > 0
          /\ Len(frac) <= 1
       THEN [ok |-> TRUE, err |-> NoErr,
             value |-> 10 * DigitsValue(whole) + DigitsValue(frac)]
       ELSE [ok |-> FALSE, value |-> 0,
             err |-> ValueError("could not convert string to float")]

RECURSIVE ReplaceAll(_, _, _)
\* text with every occurrence of a non-empty literal replaced, left to right
ReplaceAll(text, old, new) ==
    IF Len(text) < Len(old) THEN text
    ELSE IF SubSeq(text, 1, Len(old)) = old
    THEN new \o ReplaceAll(SubSeq(text, Len(old) + 1, Len(text)), old, new)
    ELSE SubSeq(text, 1, 1) \o ReplaceAll(SubSeq(text, 2, Len(text)), old, new)

----------------------------------------------------------------------------
(* Versions (semver.VersionInfo) *)

CharAt(text, i) == SubSeq(text, i, i)

LowerCase == "abcdefghijklmnopqrstuvwxyz"

UpperCase == "ABCDEFGHIJKLMNOPQRSTUVWXYZ"

Letters == {CharAt(LowerCase, i) : i \in 1..26} \cup {CharAt(UpperCase, i) : i \in 1..26}

\* [0-9a-zA-Z-]
IdChars == Digits \cup Letters \cup {"-"}

\* the code point of a character, for the comparison of str values
Ascii(c) ==
    IF c \in Digits THEN 48 + DigitValue(c)
    ELSE IF Contains(LowerCase, c)
    THEN 96 + (CHOOSE i \in 1..26 : CharAt(LowerCase, i) = c)
    ELSE IF Contains(UpperCase, c)
    THEN 64 + (CHOOSE i \in 1..26 : CharAt(UpperCase, i) = c)
    ELSE CASE c = " " -> 32 [] c = "+" -> 43 [] c = "-" -> 45 [] c = "." -> 46
           [] c = "_" -> 95 [] OTHER -> 127

\* the position of the first character of a text that is in chars, or
\* Len(text) + 1
FirstOf(text, chars) ==
    IF \E i \in 1..Len(text) : CharAt(text, i) \in chars
    THEN CHOOSE i \in 1..Len(text) :
           /\ CharAt(text, i) \in chars
           /\ \A j \in 1..(i - 1) : CharAt(text, j) \notin chars
    ELSE Len(text) + 1

\* the length of the longest prefix of decimal digits
DigitRun(text) == FirstOf(text, {CharAt(text, i) : i \in 1..Len(text)} \ Digits) - 1

RECURSIVE Split(_, _)
\* str.split(sep) for a one-character separator
Split(text, sep) ==
    LET p == FirstOf(text, {sep})
    IN IF p > Len(text) THEN <<text>>
       ELSE <<SubSeq(text, 1, p - 1)>> \o Split(SubSeq(text, p + 1, Len(text)), sep)

\* VersionInfo(major, minor, patch, prerelease, build)
VersionInfo(major, minor, patch, prerelease, build) ==
    [major |-> major, minor |-> minor, patch |-> patch,
     prerelease |-> prerelease, build |-> build]

\* 0|[1-9]\d*
IsNumericId(t) == Len(t) > 0 /\ IsDigits(t) /\ (Len(t) = 1 \/ CharAt(t, 1) # "0")

\* 0|[1-9]\d*|\d*[a-zA-Z-][0-9a-zA-Z-]*
IsPrereleaseId(t) ==
    /\ Len(t) > 0
    /\ \A i \in 1..Len(t) : CharAt(t, i) \in IdChars
    /\ IsDigits(t) => IsNumericId(t)

\* [0-9a-zA-Z-]+
IsBuildId(t) == Len(t) > 0 /\ \A i \in 1..Len(t) : CharAt(t, i) \in IdChars

\* the match of the semver pattern major.minor.patch[-prerelease][+build]
\* against a whole text: its groups, NoneValue for a group that took no part
SemverMatch(text) ==
    LET p     == FirstOf(text, {"-", "+"})
        core  == Split(SubSeq(text, 1, p - 1), ".")
        rest  == SubSeq(text, p, Len(text))
        hasPre == Len(rest) > 0 /\ CharAt(rest, 1) = "-"
        q     == FirstOf(rest, {"+"})
        pre   == IF hasPre THEN SubSeq(rest, 2, q - 1) ELSE NoneValue
        hasBuild == q <= Len(rest)
        build == IF hasBuild THEN SubSeq(rest, q + 1, Len(rest)) ELSE NoneValue
        ids(t) == Split(t, ".")
    IN [matched |->
          /\ Len(core) = 3
          /\ \A i \in 1..3 : IsNumericId(core[i])
          /\ hasPre => \A i \in DOMAIN ids(pre) : IsPrereleaseId(ids(pre)[i])
          /\ hasBuild => \A i \in DOMAIN ids(build) : IsBuildId(ids(build)[i]),
        core |-> core, prerelease |-> pre, build |-> build]

\* VersionInfo.isvalid
VersionInfo_isvalid(text) == SemverMatch(text).matched

\* VersionInfo.parse of a valid text
VersionInfo_parse(text) ==
    LET m == SemverMatch(text)
    IN VersionInfo(DigitsValue(m.core[1]), DigitsValue(m.core[2]),
                   DigitsValue(m.core[3]), m.prerelease, m.build)

\* cmp of two numbers
cmp(a, b) == IF a < b THEN -1 ELSE IF a > b THEN 1 ELSE 0

RECURSIVE StrCmp(_, _)
\* cmp of two str values: by code point, a proper prefix first
StrCmp(a, b) ==
    IF Len(a) = 0 /\ Len(b) = 0 THEN 0
    ELSE IF Len(a) = 0 THEN -1
    ELSE IF Len(b) = 0 THEN 1
    ELSE IF CharAt(a, 1) # CharAt(b, 1)
    THEN cmp(Ascii(CharAt(a, 1)), Ascii(CharAt(b, 1)))
    ELSE StrCmp(SubSeq(a, 2, Len(a)), SubSeq(b, 2, Len(b)))

\* ^[0-9]+$
IsNumber(t) == Len(t) > 0 /\ IsDigits(t)

\* semver's cmp_prerelease_tag: numbers by value and before any text
cmp_prerelease_tag(a, b) ==
    IF IsNumber(a) /\ IsNumber(b) THEN cmp(DigitsValue(a), DigitsValue(b))
    ELSE IF IsNumber(a) THEN -1
    ELSE IF IsNumber(b) THEN 1
    ELSE StrCmp(a, b)

RECURSIVE NatCmpParts(_, _, _, _)
\* the loop of semver's _nat_cmp over the paired identifiers
NatCmpParts(pa, pb, la, lb) ==
    IF Len(pa) = 0 \/ Len(pb) = 0 THEN cmp(la, lb)
    ELSE LET c == cmp_prerelease_tag(pa[1], pb[1])
         IN IF c # 0 THEN c ELSE NatCmpParts(Tail(pa), Tail(pb), la, lb)

\* None or ""
IsEmpty(t) == t = NoneValue \/ t = ""

\* semver's _nat_cmp of two prerelease values
_nat_cmp(a, b) ==
    LET ta == IF IsEmpty(a) THEN "" ELSE a
        tb == IF IsEmpty(b) THEN "" ELSE b
    IN NatCmpParts(Split(ta, "."), Split(tb, "."), Len(ta), Len(tb))

\* compare with a fault: the three numbers are compared as text
compare_as_text(v1, v2) ==
    LET text(n) == IF n < 10 THEN CharAt("0123456789", n + 1)
                   ELSE CharAt("0123456789", (n \div 10) + 1)
                        \o CharAt("0123456789", (n % 10) + 1)
        x == IF v1.major # v2.major THEN StrCmp(text(v1.major), text(v2.major))
             ELSE IF v1.minor # v2.minor THEN StrCmp(text(v1.minor), text(v2.minor))
             ELSE StrCmp(text(v1.patch), text(v2.patch))
        rccmp == _nat_cmp(v1.prerelease, v2.prerelease)
    IN IF x # 0 THEN x
       ELSE IF rccmp = 0 THEN 0
       ELSE IF IsEmpty(v1.prerelease) THEN 1
       ELSE IF IsEmpty(v2.prerelease) THEN -1
       ELSE rccmp

\* VersionInfo.compare: major, minor, patch as numbers, then the prerelease;
\* the build takes no part
compare(v1, v2) ==
    LET x == IF v1.major # v2.major THEN cmp(v1.major, v2.major)
             ELSE IF v1.minor # v2.minor THEN cmp(v1.minor, v2.minor)
             ELSE cmp(v1.patch, v2.patch)
        rccmp == _nat_cmp(v1.prerelease, v2.prerelease)
    IN IF x # 0 THEN x
       ELSE IF rccmp = 0 THEN 0
       ELSE IF IsEmpty(v1.prerelease) THEN 1
       ELSE IF IsEmpty(v2.prerelease) THEN -1
       ELSE rccmp

\* VersionInfo.__lt__ for release versions given as <<major, minor, patch>>
VersionLess(a, b) ==
    \/ a[1] < b[1]
    \/ a[1] = b[1] /\ a[2] < b[2]
    \/ a[1] = b[1] /\ a[2] = b[2] /\ a[3] < b[3]

----------------------------------------------------------------------------
(* Tool classes (lisa/tools/kdump.py) *)

ToolIds == {"Kexec", "Makedumpfile", "Kdump", "Service"}

NoTool == [tool |-> "", cls |-> "", node |-> "", serial |-> 0]

\* tools of lisa.tools that kdump.py uses and does not define
ExternalCommand(cls) ==
    IF cls = "Service" THEN "systemctl" ELSE ""

\* the command property of each tool class
command(cls) ==
    CASE cls = "Kexec"        -> "kexec"
      [] cls = "Makedumpfile" -> "makedumpfile"
      [] cls = "KdumpRedhat"  -> "kdumpctl"
      [] cls = "KdumpDebian"  -> "kdump-config"
      [] cls = "KdumpSuse"    -> "kdumptool"
      [] OTHER                -> ExternalCommand(cls)

\* the can_install property: True for Kexec, Makedumpfile and KdumpBase
can_install(cls) ==
    cls \in {"Kexec", "Makedumpfile", "KdumpRedhat", "KdumpDebian", "KdumpSuse"}

\* dependencies with a fault: Makedumpfile is left out
dependencies_kexec_only(t) ==
    IF t = "Kdump" THEN <<"Kexec">> ELSE <<>>

\* KdumpBase.dependencies; the other tools declare none
dependencies(t) ==
    IF t = "Kdump" THEN <<"Kexec", "Makedumpfile">> ELSE <<>>

Unsupported == "Unsupported"

\* KdumpBase.create with a fault: an unknown family falls back to a variant
KdumpBase_create_fallback(o) ==
    IF Family(o) = "Redhat" THEN "KdumpRedhat"
    ELSE IF Family(o) = "Debian" THEN "KdumpDebian"
    ELSE "KdumpSuse"

\* KdumpBase.create with a fault: the choice looks at the OS version
KdumpBase_create_by_version(o) ==
    IF Family(o) = "Redhat"
    THEN (IF o.version[1] >= 8 THEN "KdumpSuse" ELSE "KdumpRedhat")
    ELSE IF Family(o) = "Debian" THEN "KdumpDebian"
    ELSE IF Family(o) = "Suse" THEN "KdumpSuse"
    ELSE Unsupported

\* KdumpBase.create: the variant class for the node's OS
KdumpBase_create(o) ==
    IF Family(o) = "Redhat" THEN "KdumpRedhat"
    ELSE IF Family(o) = "Debian" THEN "KdumpDebian"
    ELSE IF Family(o) = "Suse" THEN "KdumpSuse"
    ELSE Unsupported

\* Tool.create: a tool without variants is its own class
create(t, o) == IF t = "Kdump" THEN KdumpBase_create(o) ELSE t

\* service_name with a fault: KdumpDebian does not override the service
service_name_default(cls) == "kdump"

\* KdumpBase.enable_kdump_service and its override in KdumpDebian
service_name(cls) == IF cls = "KdumpDebian" THEN "kdump-tools" ELSE "kdump"

\* node.os.information.version: a release unless the OS record carries a
\* prerelease
OsVersion(o) ==
    VersionInfo(o.version[1], o.version[2], o.version[3],
                IF "prerelease" \in DOMAIN o THEN o.prerelease ELSE NoneValue,
                NoneValue)

\* VersionInfo.__ge__
VersionGE(v, w) == compare(v, w) >= 0

\* the threshold of the Redhat hooks with a fault: the release 8.0.0
grubby_since_release == VersionInfo_parse("8.0.0")

\* the str operand "8.0.0-0" of the comparisons in the Redhat hooks, as a
\* version
grubby_since == VersionInfo_parse("8.0.0-0")

\* _get_crashkernel_cfg_file of KdumpBase, KdumpRedhat and KdumpDebian
_get_crashkernel_cfg_file(cls, o) ==
    CASE cls = "KdumpRedhat" ->
           IF VersionGE(OsVersion(o), grubby_since) THEN "" ELSE "/etc/default/grub"
      [] cls = "KdumpDebian" -> "/etc/default/grub.d/kdump-tools.cfg"
      [] OTHER               -> "/etc/default/grub"

\* _get_crashkernel_update_cmd of KdumpBase, KdumpRedhat and KdumpDebian; efi
\* is whether /sys/firmware/efi exists on the node
_get_crashkernel_update_cmd(cls, o, efi, crashkernel) ==
    CASE cls = "KdumpRedhat" ->
           IF VersionGE(OsVersion(o), grubby_since)
           THEN "grubby --update-kernel=ALL --args=\"crashkernel="
                \o crashkernel \o "\""
           ELSE IF efi THEN "grub2-mkconfig -o /boot/efi/EFI/redhat/grub.cfg"
           ELSE "grub2-mkconfig -o /boot/grub2/grub.cfg"
      [] cls = "KdumpDebian" -> "update-grub"
      [] OTHER               -> "grub2-mkconfig -o /boot/grub2/grub.cfg"

----------------------------------------------------------------------------
(* The remote node: packages and commands *)

Packages == {"kexec-tools", "makedumpfile", "kdump-tools", "kdump"}

\* the commands a package brings when its installation works
PackageCommands(pkg, o) ==
    CASE pkg = "kexec-tools" ->
           IF Family(o) = "Redhat" THEN {"kexec", "makedumpfile", "kdumpctl"}
           ELSE {"kexec"}
      [] pkg = "makedumpfile" -> {"makedumpfile"}
      [] pkg = "kdump-tools"  -> {"kdump-config"}
      [] pkg = "kdump"        -> {"kdumptool"}

\* versions of kexec a distribution may package
PackagedKexecVersions == {<<2, 0, 14>>, <<2, 0, 15>>, <<2, 0, 16>>}

\* _target_kexec_version with a fault: 2.0.14 passes as recent enough
_target_kexec_version_14 == <<2, 0, 14>>

\* Kexec._target_kexec_version
_target_kexec_version == <<2, 0, 15>>

\* the version of Kexec._kexec_repo
SourceKexecVersion == <<2, 0, 18>>

Event(ev, what, ok) == [ev |-> ev, what |-> what, ok |-> ok]

\* Posix.install_packages: raises MissingPackagesException for a package the
\* package manager cannot install
install_packages(st, o, pkg, env) ==
    IF pkg \notin env.avail
    THEN [st EXCEPT !.err = MissingPackagesException(pkg),
                    !.log = Append(@, Event("install_packages", pkg, FALSE))]
    ELSE LET adds == IF pkg \in env.works THEN PackageCommands(pkg, o) ELSE {}
         IN [st EXCEPT
               !.present = @ \cup adds,
               !.kexecVersion = IF "kexec" \in adds /\ "kexec" \notin st.present
                                THEN env.pkgVer ELSE @,
               !.log = Append(@, Event("install_packages", pkg, TRUE))]

\* Tool._check_exists: probe the tool's identifying command on the node
_check_exists(st, cls) ==
    [st EXCEPT !.ok = command(cls) \in st.present,
               !.log = Append(@, Event("probe", cls, command(cls) \in st.present))]

----------------------------------------------------------------------------
(* Install procedures (lisa/tools/kdump.py) *)

\* Kexec._get_version: run "kexec -v", assert its exit code, parse the version
Kexec__get_version(st, env) ==
    LET s1 == [st EXCEPT !.log = Append(@, Event("exec", "kexec -v",
                                   "kexec" \in st.present /\ env.query # "exit"))]
    IN IF "kexec" \notin st.present \/ env.query = "exit"
       THEN [s1 EXCEPT !.err = AssertionError("kexec -v")]
       ELSE IF env.query = "nomatch"
       THEN [s1 EXCEPT !.err = LisaException("No find matched kexec version")]
       ELSE [s1 EXCEPT !.ver = st.kexecVersion]

\* Kexec._install_from_src: download, build and copy kexec; every step asserts
\* its exit code
Kexec__install_from_src(st, env) ==
    IF env.srcOk
    THEN [st EXCEPT !.present = @ \cup {"kexec"},
                    !.kexecVersion = SourceKexecVersion,
                    !.log = Append(@, Event("build", "kexec", TRUE))]
    ELSE [st EXCEPT !.err = AssertionError("build"),
                    !.log = Append(@, Event("build", "kexec", FALSE))]

\* Kexec._install
Kexec__install(st, o, env) ==
    IF ~IsPosix(o) THEN [st EXCEPT !.err = AssertionError("Posix")]
    ELSE
    LET s1 == install_packages(st, o, "kexec-tools", env)
        sv == Kexec__get_version(s1, env)
        s2 == IF s1.err # NoErr \/ Family(o) # "Debian" THEN s1
              ELSE IF sv.err # NoErr THEN sv
              ELSE IF VersionLess(sv.ver, _target_kexec_version)
                   THEN Kexec__install_from_src(sv, env)
                   ELSE sv
    IN IF s2.err # NoErr THEN s2 ELSE _check_exists(s2, "Kexec")

\* Makedumpfile._install
Makedumpfile__install(st, o, env) ==
    IF ~IsPosix(o) THEN [st EXCEPT !.err = AssertionError("Posix")]
    ELSE
    LET s1 == IF Family(o) = "Redhat"
              THEN install_packages(st, o, "kexec-tools", env)
              ELSE install_packages(st, o, "makedumpfile", env)
    IN IF s1.err # NoErr THEN s1 ELSE _check_exists(s1, "Makedumpfile")

\* the package each kdump variant installs
KdumpPackage(cls) ==
    CASE cls = "KdumpRedhat" -> "kexec-tools"
      [] cls = "KdumpDebian" -> "kdump-tools"
      [] cls = "KdumpSuse"   -> "kdump"

\* the OS family each kdump variant is written for
VariantFamily(cls) ==
    CASE cls = "KdumpRedhat" -> "Redhat"
      [] cls = "KdumpDebian" -> "Debian"
      [] cls = "KdumpSuse"   -> "Suse"

\* Kdump__install with a fault: reports success without the closing probe
Kdump__install_noprobe(st, cls, o, env) ==
    IF Family(o) # VariantFamily(cls) THEN [st EXCEPT !.err = AssertionError(cls)]
    ELSE
    LET s1 == install_packages(st, o, KdumpPackage(cls), env)
    IN IF s1.err # NoErr THEN s1 ELSE [s1 EXCEPT !.ok = TRUE]

\* KdumpRedhat._install, KdumpDebian._install, KdumpSuse._install
Kdump__install(st, cls, o, env) ==
    IF Family(o) # VariantFamily(cls) THEN [st EXCEPT !.err = AssertionError(cls)]
    ELSE
    LET s1 == install_packages(st, o, KdumpPackage(cls), env)
    IN IF s1.err # NoErr THEN s1 ELSE _check_exists(s1, cls)

\* tool._install() of the instance's class
_install(st, cls, o, env) ==
    CASE cls = "Kexec"        -> Kexec__install(st, o, env)
      [] cls = "Makedumpfile" -> Makedumpfile__install(st, o, env)
      [] OTHER                -> Kdump__install(st, cls, o, env)

----------------------------------------------------------------------------
(* The per-node tool registry: node.tools[tool_type] *)

RECURSIVE Get(_, _, _, _, _)
RECURSIVE GetAll(_, _, _, _, _)

\* resolve the tools of deps in order, stopping at the first error
GetAll(st, n, o, deps, env) ==
    IF deps = <<>> \/ st.err # NoErr THEN st
    ELSE GetAll(Get(st, n, o, Head(deps), env), n, o, Tail(deps), env)

\* CacheHit with a fault: the cached tool is probed again on every request
CacheHit_reprobe(st, t) ==
    [st EXCEPT !.result = st.cache[t],
               !.log = Append(@, Event("probe", st.cache[t].cls,
                                       command(st.cache[t].cls) \in st.present))]

\* CacheHit with a fault: the install procedure runs again on every request
CacheHit_reinstall(st, t) ==
    [st EXCEPT !.result = st.cache[t], !.installs[t] = @ + 1,
               !.log = Append(@, Event("install", t, TRUE))]

\* the cached instance is returned as it is
CacheHit(st, t) == [st EXCEPT !.result = st.cache[t]]

\* the new instance enters the cache and is returned
CacheStore(st, t, inst) ==
    [st EXCEPT !.cache[t] = inst, !.result = inst,
               !.log = Append(@, Event("cache", t, TRUE))]

\* probe, install when absent and installable, then cache
Install(st, t, inst, o, env) ==
    LET s1 == [st EXCEPT !.installs[t] = @ + 1,
                         !.log = Append(@, Event("install", t, TRUE))]
        s2 == _install(s1, inst.cls, o, env)
    IN IF s2.err # NoErr THEN s2
       ELSE IF ~s2.ok THEN [s2 EXCEPT !.err = MissingCapabilityError(t)]
       ELSE CacheStore(s2, t, inst)

Get(st, n, o, t, env) ==
    IF st.cache[t] # NoTool THEN CacheHit(st, t)
    ELSE
    LET s1  == GetAll([st EXCEPT !.log = Append(@, Event("get", t, TRUE))],
                      n, o, dependencies(t), env)
        cls == create(t, o)
        inst == [tool |-> t, cls |-> cls, node |-> n,
                 serial |-> s1.created[t] + 1]
        s2  == [s1 EXCEPT !.created[t] = @ + 1,
                          !.log = Append(@, Event("create", cls, TRUE))]
        s3  == _check_exists(s2, cls)
    IN IF s1.err # NoErr THEN [s1 EXCEPT !.result = NoTool]
       ELSE IF cls = Unsupported
       THEN [s1 EXCEPT !.err = UnsupportedDistroException(o),
                       !.result = NoTool,
                       !.log = Append(@, Event("create", Unsupported, FALSE))]
       ELSE IF s3.ok THEN CacheStore(s3, t, inst)
       ELSE IF ~can_install(cls)
       THEN [s3 EXCEPT !.err = MissingCapabilityError(t), !.result = NoTool]
       ELSE LET s4 == Install(s3, t, inst, o, env)
            IN IF s4.err # NoErr THEN [s4 EXCEPT !.result = NoTool] ELSE s4

----------------------------------------------------------------------------
(* Outcomes the remote node may produce during one call *)

\* the package the install procedure of tool x asks for on an OS
OwnPackages(x, o) ==
    CASE x = "Kexec" -> {"kexec-tools"}
      [] x = "Makedumpfile" ->
           IF Family(o) = "Redhat" THEN {"kexec-tools"} ELSE {"makedumpfile"}
      [] x = "Kdump" ->
           IF KdumpBase_create(o) = Unsupported THEN {}
           ELSE {KdumpPackage(KdumpBase_create(o))}
      [] OTHER -> {}

\* the packages a resolve of t on node n may try to install: those of t and
\* of its dependencies, as far as they are neither cached nor present
EnvPackages(n, t) ==
    LET o == os[n]
        needs(x) == /\ cache[n][x] = NoTool
                    /\ create(x, o) # Unsupported
                    /\ command(create(x, o)) \notin present[n]
        deps == {dependencies(t)[i] : i \in DOMAIN dependencies(t)}
    IN IF cache[n][t] # NoTool THEN {}
       ELSE UNION {OwnPackages(x, o) : x \in {y \in deps \cup {t} : needs(y)}}

\* what the node answers during one call: the packages the package manager
\* can install (avail), those whose installation brings the commands (works),
\* the packaged kexec version, the outcome of "kexec -v", the source build
Env(a, w, v, q, b) ==
    [avail |-> a, works |-> w, pkgVer |-> v, query |-> q, srcOk |-> b]

DefaultKexecVersion == <<2, 0, 16>>

QueryOutcomes == {"ok", "exit", "nomatch"}

\* the kexec version is read on Debian only, after a working kexec-tools install
ReadsKexecVersion(o, w) == Family(o) = "Debian" /\ "kexec-tools" \in w

----------------------------------------------------------------------------
(* Specification of the registry *)

NoCall == [op |-> "none", node |-> "", tool |-> "", hit |-> FALSE]

InitPresent == { {}, {"systemctl"} }

RegInit ==
    /\ os \in OsAssignments
    /\ cache = [n \in Nodes |-> [t \in ToolIds |-> NoTool]]
    /\ \E base \in InitPresent : present = [n \in Nodes |-> base]
    /\ kexecVersion = [n \in Nodes |-> NoVersion]
    /\ created = [n \in Nodes |-> [t \in ToolIds |-> 0]]
    /\ installs = [n \in Nodes |-> [t \in ToolIds |-> 0]]
    /\ enabled = [n \in Nodes |-> {}]
    /\ ncalls = 0
    /\ call = NoCall
    /\ log = <<>>
    /\ result = NoTool
    /\ err = NoErr

\* the state of node n as a call on it starts
NodeState(n) ==
    [cache |-> cache[n], present |-> present[n],
     kexecVersion |-> kexecVersion[n], created |-> created[n],
     installs |-> installs[n], log |-> <<>>, result |-> NoTool,
     err |-> NoErr, ok |-> FALSE, ver |-> NoVersion]

\* Commit with a fault: the cache is one table shared by all nodes
Commit_shared(n, st) ==
    /\ cache' = [m \in Nodes |-> st.cache]
    /\ present' = [present EXCEPT ![n] = st.present]
    /\ kexecVersion' = [kexecVersion EXCEPT ![n] = st.kexecVersion]
    /\ created' = [created EXCEPT ![n] = st.created]
    /\ installs' = [installs EXCEPT ![n] = st.installs]
    /\ log' = st.log
    /\ err' = st.err

\* write the state a call on node n ended in
Commit(n, st) ==
    /\ cache' = [cache EXCEPT ![n] = st.cache]
    /\ present' = [present EXCEPT ![n] = st.present]
    /\ kexecVersion' = [kexecVersion EXCEPT ![n] = st.kexecVersion]
    /\ created' = [created EXCEPT ![n] = st.created]
    /\ installs' = [installs EXCEPT ![n] = st.installs]
    /\ log' = st.log
    /\ err' = st.err

\* a test case asks node.tools[t]
Resolve(n, t) ==
    /\ ncalls < MaxCalls
    /\ \E a \in SUBSET EnvPackages(n, t) : \E w \in SUBSET a :
       \E v \in IF ReadsKexecVersion(os[n], w) THEN PackagedKexecVersions
                ELSE {DefaultKexecVersion} :
       \E q \in IF ReadsKexecVersion(os[n], w) THEN QueryOutcomes ELSE {"ok"} :
       \E b \in IF ReadsKexecVersion(os[n], w) /\ q = "ok"
                   /\ VersionLess(v, _target_kexec_version)
                THEN BOOLEAN ELSE {TRUE} :
         LET st == Get(NodeState(n), n, os[n], t, Env(a, w, v, q, b))
         IN /\ Commit(n, st)
            /\ result' = st.result
    /\ call' = [op |-> "resolve", node |-> n, tool |-> t,
                hit |-> cache[n][t] # NoTool]
    /\ ncalls' = ncalls + 1
    /\ UNCHANGED <<os, enabled, retryVars, pollVars, extVars>>

\* kdump.enable_kdump_service() on the node's resolved kdump tool
EnableKdumpService(n) ==
    /\ ncalls < MaxCalls
    /\ cache[n]["Kdump"] # NoTool
    /\ LET st == Get(NodeState(n), n, os[n], "Service",
                     Env({}, {}, DefaultKexecVersion, "ok", TRUE))
       IN /\ Commit(n, st)
          /\ result' = NoTool
          /\ enabled' = IF st.err # NoErr THEN enabled
                        ELSE [enabled EXCEPT ![n] =
                                @ \cup {service_name(cache[n]["Kdump"].cls)}]
    /\ call' = [op |-> "enable_kdump_service", node |-> n, tool |-> "Kdump",
                hit |-> FALSE]
    /\ ncalls' = ncalls + 1
    /\ UNCHANGED <<os, retryVars, pollVars, extVars>>

\* the registry runs kexec._install() on a node where its probe of kexec
\* failed; the call record keeps what the node answered
KexecInstall(n) ==
    /\ ncalls < MaxCalls
    /\ "kexec" \notin present[n]
    /\ \E a \in SUBSET {"kexec-tools"} : \E w \in SUBSET a :
       \E v \in PackagedKexecVersions, q \in QueryOutcomes, b \in BOOLEAN :
         /\ Commit(n, Kexec__install(NodeState(n), os[n], Env(a, w, v, q, b)))
         /\ call' = [op |-> "_install", node |-> n, tool |-> "Kexec",
                     hit |-> FALSE, env |-> Env(a, w, v, q, b)]
    /\ result' = NoTool
    /\ ncalls' = ncalls + 1
    /\ UNCHANGED <<os, enabled, retryVars, pollVars, extVars>>

KexecInstallNext == \E n \in Nodes : KexecInstall(n)

RegNext ==
    \/ \E n \in Nodes, t \in ToolIds : Resolve(n, t)
    \/ \E n \in Nodes : EnableKdumpService(n)

----------------------------------------------------------------------------
(* Bounded retry: the retry decorator of _check_kexec_crash_loaded,          *)
(* initialize_nic_info and sriov_basic_test                                 *)

RetryOps == {"_check_kexec_crash_loaded", "initialize_nic_info"}

\* RetryExceptions with a fault: every exception is caught
RetryExceptions_any(op) == "Exception"

\* the exceptions argument of the decorator
RetryExceptions(op) ==
    IF op = "_check_kexec_crash_loaded" THEN "LisaException"
    ELSE "AssertionError"

\* RetryTries with a fault: the flag check is not retried
RetryTries_single(op) == IF op = "_check_kexec_crash_loaded" THEN 1 ELSE 150

\* the tries argument of the decorator
RetryTries(op) == IF op = "_check_kexec_crash_loaded" THEN 60 ELSE 150

\* the delay argument of the decorator, in seconds
RetryDelay(op) == IF op = "_check_kexec_crash_loaded" THEN 1 ELSE 2

Returned(value) == [ok |-> TRUE, value |-> value, err |-> NoErr]

Raised(e) == [ok |-> FALSE, value |-> "", err |-> e]

\* the operating system named by an unsupported-distribution error raised
\* while one of these operations resolves a tool
RetryNodeOs == [name |-> "FreeBSD", version |-> <<12, 0, 0>>]

\* what the node may answer to one attempt of an operation: for the flag
\* check the content of /sys/kernel/kexec_crash_loaded, or a failure of
\* node.tools[Cat] (no cat tool, no variant for the OS, a failing probe
\* command); for the NIC info whether every interface has a paired VF
\* ("nicsA", "nicsB": the NIC tables found), or a failing initialisation of
\* the NICs (in general, or for want of a tool variant for the OS)
RetryInputs(op) ==
    IF op = "_check_kexec_crash_loaded"
    THEN {"1", "0", "", "no cat", "no variant", "probe failed"}
    ELSE {"nicsA", "nicsB", "unpaired", "init failed", "no variant"}

\* the failure of node.tools[...] inside a body, if the answer is one
ResolveFailure(input) ==
    CASE input = "no cat"       -> MissingCapabilityError("Cat")
      [] input = "no variant"   -> UnsupportedDistroException(RetryNodeOs)
      [] input = "probe failed" -> AssertionError("exit code")
      [] OTHER                  -> NoErr

\* _check_kexec_crash_loaded with a fault: a wrong value raises an
\* AssertionError, which the decorator does not catch
_check_kexec_crash_loaded_assert(input) ==
    IF ResolveFailure(input) # NoErr THEN Raised(ResolveFailure(input))
    ELSE IF "1" # input
    THEN Raised(AssertionError("/sys/kernel/kexec_crash_loaded file's value is not 1."))
    ELSE Returned("None")

\* KdumpBase._check_kexec_crash_loaded: one run of the body
_check_kexec_crash_loaded(input) ==
    IF ResolveFailure(input) # NoErr THEN Raised(ResolveFailure(input))
    ELSE IF "1" # input
    THEN Raised(LisaException("/sys/kernel/kexec_crash_loaded file's value is not 1."))
    ELSE Returned("None")

\* initialize_nic_info: one run of the body
initialize_nic_info(input) ==
    IF ResolveFailure(input) # NoErr THEN Raised(ResolveFailure(input))
    ELSE IF input = "init failed" THEN Raised(LisaException("nics"))
    ELSE IF input = "unpaired"
    THEN Raised(AssertionError("This interface does not have a paired VF."))
    ELSE Returned(input)

RunBody(op, input) ==
    IF op = "_check_kexec_crash_loaded" THEN _check_kexec_crash_loaded(input)
    ELSE initialize_nic_info(input)

RetryInit ==
    /\ rOp = ""
    /\ rPc = "idle"
    /\ rTries = 0
    /\ rAttempts = 0
    /\ rSlept = 0
    /\ rInput = ""
    /\ rResult = ""
    /\ rErr = NoErr

\* the decorated operation is called: _tries = tries
RetryCall(op) ==
    /\ rPc = "idle"
    /\ rOp' = op
    /\ rPc' = "running"
    /\ rTries' = RetryTries(op)
    /\ UNCHANGED <<rAttempts, rSlept, rInput, rResult, rErr>>

\* one pass of the retry loop: invoke the operation; return its value, or
\* let an exception outside the catch set through, or count the failure down
\* and raise it when no try is left, else sleep for the delay
RetryAttempt(input) ==
    /\ rPc = "running"
    /\ rTries # 0
    /\ LET out == RunBody(rOp, input)
           caught == ~out.ok /\ IsInstance(out.err.type, RetryExceptions(rOp))
       IN /\ rInput' = input
          /\ rAttempts' = rAttempts + 1
          /\ rTries' = IF caught THEN rTries - 1 ELSE rTries
          /\ rPc' = IF out.ok THEN "returned"
                    ELSE IF ~caught \/ rTries - 1 = 0 THEN "raised"
                    ELSE "running"
          /\ rResult' = IF out.ok THEN out.value ELSE rResult
          /\ rErr' = IF out.ok \/ (caught /\ rTries - 1 # 0) THEN rErr
                     ELSE out.err
          /\ rSlept' = IF caught /\ rTries - 1 # 0
                       THEN rSlept + RetryDelay(rOp) ELSE rSlept
    /\ UNCHANGED rOp

RetryNext ==
    \/ \E op \in RetryOps : RetryCall(op) /\ UNCHANGED <<regVars, pollVars, extVars>>
    \/ \E input \in RetryInputs(rOp) :
         RetryAttempt(input) /\ UNCHANGED <<regVars, pollVars, extVars>>

----------------------------------------------------------------------------
(* The file poll: _wait_file_changed (microsoft/testsuites/core/timesync.py) *)
(* Time is counted in sleep intervals of 0.5 s.                              *)

\* timeout = 60, in seconds
timeout == 60

\* sleep(0.5): two sleep intervals make a second
SleepsPerSecond == 2

\* one sleep, in sleep intervals
SleepTicks == 1

\* the timeout in sleep intervals
Deadline == timeout * SleepsPerSecond

\* contents the polled file may have
FileValues == {"a", "b", "c"}

\* expected_value: None, one string, or a list of strings
ExpectedValues ==
    { [list |-> FALSE, value |-> NoneValue, values |-> {}],
      [list |-> FALSE, value |-> "a",       values |-> {}],
      [list |-> TRUE,  value |-> NoneValue, values |-> {"a", "b"}],
      [list |-> TRUE,  value |-> NoneValue, values |-> {}] }

\* Matches with a fault: a single expected value is looked for in the output
Matches_substring(stdout, expected) ==
    IF expected.list THEN stdout \in expected.values
    ELSE expected.value # NoneValue => Contains(expected.value \o "b", stdout)

\* the test of the loop body: membership for a list, equality otherwise
Matches(stdout, expected) ==
    IF expected.list THEN stdout \in expected.values
    ELSE stdout = expected.value

PollInit ==
    /\ pPc = "idle"
    /\ pExpected = [list |-> FALSE, value |-> NoneValue, values |-> {}]
    /\ pNow = 0
    /\ pLastCheck = 0
    /\ pLastDur = 0
    /\ pReads = 0
    /\ pSleeps = 0
    /\ pFirst = "none"
    /\ pLast = "none"
    /\ pResult = FALSE

\* _wait_file_changed is called: the timer starts
PollStart(expected) ==
    /\ pPc = "idle"
    /\ pPc' = "polling"
    /\ pExpected' = expected
    /\ UNCHANGED <<pNow, pLastCheck, pLastDur, pReads, pSleeps, pFirst, pLast,
                   pResult>>

\* PollIterate with a fault: the sleep comes before the comparison
PollIterate_sleep_first(d, stdout) ==
    /\ pPc = "polling"
    /\ pNow < Deadline
    /\ pLastCheck' = pNow
    /\ pLastDur' = d
    /\ pReads' = pReads + 1
    /\ LET m == Matches(stdout, pExpected)
       IN /\ pFirst' = IF pReads = 0 THEN (IF m THEN "match" ELSE "miss")
                       ELSE pFirst
          /\ pLast' = IF m THEN "match" ELSE "miss"
          /\ pPc' = IF m THEN "done" ELSE "polling"
          /\ pResult' = m
          /\ pNow' = pNow + d + SleepTicks
          /\ pSleeps' = pSleeps + 1
    /\ UNCHANGED pExpected

\* PollIterate with a fault: the loop test is elapsed <= timeout
PollIterate_inclusive(d, stdout) ==
    /\ pPc = "polling"
    /\ pNow <= Deadline
    /\ pLastCheck' = pNow
    /\ pLastDur' = d
    /\ pReads' = pReads + 1
    /\ LET m == Matches(stdout, pExpected)
       IN /\ pFirst' = IF pReads = 0 THEN (IF m THEN "match" ELSE "miss")
                       ELSE pFirst
          /\ pLast' = IF m THEN "match" ELSE "miss"
          /\ pPc' = IF m THEN "done" ELSE "polling"
          /\ pResult' = m
          /\ pNow' = IF m THEN pNow + d ELSE pNow + d + SleepTicks
          /\ pSleeps' = IF m THEN pSleeps ELSE pSleeps + 1
    /\ UNCHANGED pExpected

\* PollIterate with a fault: a matching read does not return
PollIterate_no_return(d, stdout) ==
    /\ pPc = "polling"
    /\ pNow < Deadline
    /\ pLastCheck' = pNow
    /\ pLastDur' = d
    /\ pReads' = pReads + 1
    /\ LET m == Matches(stdout, pExpected)
       IN /\ pFirst' = IF pReads = 0 THEN (IF m THEN "match" ELSE "miss")
                       ELSE pFirst
          /\ pLast' = IF m THEN "match" ELSE "miss"
          /\ pPc' = "polling"
          /\ pResult' = m
          /\ pNow' = pNow + d + SleepTicks
          /\ pSleeps' = pSleeps + 1
    /\ UNCHANGED pExpected

\* one pass of the loop: the test elapsed < timeout holds, the file is read
\* (taking d), and the poll returns True on a match or sleeps
PollIterate(d, stdout) ==
    /\ pPc = "polling"
    /\ pNow < Deadline
    /\ pLastCheck' = pNow
    /\ pLastDur' = d
    /\ pReads' = pReads + 1
    /\ LET m == Matches(stdout, pExpected)
       IN /\ pFirst' = IF pReads = 0 THEN (IF m THEN "match" ELSE "miss")
                       ELSE pFirst
          /\ pLast' = IF m THEN "match" ELSE "miss"
          /\ pPc' = IF m THEN "done" ELSE "polling"
          /\ pResult' = m
          /\ pNow' = IF m THEN pNow + d ELSE pNow + d + SleepTicks
          /\ pSleeps' = IF m THEN pSleeps ELSE pSleeps + 1
    /\ UNCHANGED pExpected

\* the test elapsed < timeout fails: return False
PollTimeout ==
    /\ pPc = "polling"
    /\ ~(pNow < Deadline)
    /\ pLastCheck' = pNow
    /\ pPc' = "done"
    /\ pResult' = FALSE
    /\ UNCHANGED <<pExpected, pNow, pLastDur, pReads, pSleeps, pFirst, pLast>>

PollNext ==
    \/ \E e \in ExpectedValues : PollStart(e) /\ UNCHANGED <<regVars, retryVars, extVars>>
    \/ \E d \in 0..MaxReadTicks, v \in FileValues :
         PollIterate(d, v) /\ UNCHANGED <<regVars, retryVars, extVars>>
    \/ PollTimeout /\ UNCHANGED <<regVars, retryVars, extVars>>

----------------------------------------------------------------------------
(* KdumpBase.check_crashkernel_loaded (lisa/tools/kdump.py)                 *)

\* values of the crashkernel parameter a test requests
CrashkernelValues == {"512M", "256M"}

\* contents of /proc/cmdline
Cmdlines == {"ro crashkernel=512M quiet", "ro crashkernel=512M@16M",
             "ro crashkernel=auto", "ro quiet"}

\* contents of /proc/iomem
Iomems == {"00100000-bffeffff : System RAM  2b000000-4affffff : Crash kernel",
           "00100000-bffeffff : System RAM"}

\* what cat prints for the flag file when it exists
FlagValues == {"0", "1", "10"}

\* KdumpBase.kexec_crash
kexec_crash == "/sys/kernel/kexec_crash_loaded"

\* _check_crashkernel_in_cmdline with a fault: any crashkernel parameter passes
_check_crashkernel_in_cmdline_any(stdout, crashkernel_memory) ==
    IF ~Contains(stdout, "crashkernel=")
    THEN Raised(LisaException("boot parameter is not present in kernel cmdline"))
    ELSE Returned("None")

\* KdumpBase._check_crashkernel_in_cmdline, on the output of cat /proc/cmdline
_check_crashkernel_in_cmdline(stdout, crashkernel_memory) ==
    IF ~Contains(stdout, "crashkernel=" \o crashkernel_memory)
    THEN Raised(LisaException("boot parameter is not present in kernel cmdline"))
    ELSE Returned("None")

\* KdumpBase._check_crashkernel_memory_reserved, on the output of cat /proc/iomem
_check_crashkernel_memory_reserved(stdout) ==
    IF ~Contains(stdout, "Crash kernel")
    THEN Raised(LisaException("Memory isn't reserved for crash kernel"))
    ELSE Returned("None")

\* the flag file check of check_crashkernel_loaded
_check_kexec_crash_exists(exists) ==
    IF ~exists
    THEN Raised(LisaException("file doesn't exist. Kexec crash is not loaded."))
    ELSE Returned("None")

\* no call of check_crashkernel_loaded
LoadedStill ==
    /\ kPc = "idle"
    /\ kArg = ""
    /\ kCmdline = ""
    /\ kFlagExists = FALSE
    /\ kFlag = ""
    /\ kIomem = ""
    /\ kChecks = <<>>
    /\ kErr = NoErr

\* a node before the call; a missing flag file reads as the empty text
LoadedInit ==
    /\ kPc = "idle"
    /\ kArg = ""
    /\ kCmdline \in Cmdlines
    /\ kFlagExists \in BOOLEAN
    /\ kFlag \in (IF kFlagExists THEN FlagValues ELSE {""})
    /\ kIomem \in Iomems
    /\ kChecks = <<>>
    /\ kErr = NoErr

\* check_crashkernel_loaded up to its call of _check_kexec_crash_loaded
check_crashkernel_loaded(crashkernel_memory) ==
    /\ kPc = "idle"
    /\ rPc = "idle"
    /\ kArg' = crashkernel_memory
    /\ LET c1 == _check_crashkernel_in_cmdline(kCmdline, crashkernel_memory)
           c2 == _check_kexec_crash_exists(kFlagExists)
       IN IF ~c1.ok
          THEN /\ kPc' = "raised"
               /\ kErr' = c1.err
               /\ kChecks' = <<"cmdline">>
               /\ UNCHANGED retryVars
          ELSE IF ~c2.ok
          THEN /\ kPc' = "raised"
               /\ kErr' = c2.err
               /\ kChecks' = <<"cmdline", "exists">>
               /\ UNCHANGED retryVars
          ELSE /\ kPc' = "flag"
               /\ kErr' = kErr
               /\ kChecks' = <<"cmdline", "exists">>
               /\ RetryCall("_check_kexec_crash_loaded")
    /\ UNCHANGED <<kCmdline, kFlagExists, kFlag, kIomem>>

\* one attempt of _check_kexec_crash_loaded under its retry and, when the
\* retry ends, the rest of check_crashkernel_loaded
LoadedAttempt ==
    /\ kPc = "flag"
    /\ RetryAttempt(kFlag)
    /\ LET c3 == _check_crashkernel_memory_reserved(kIomem)
       IN IF rPc' = "running"
          THEN /\ kPc' = "flag"
               /\ kErr' = kErr
               /\ kChecks' = Append(kChecks, "flag")
          ELSE IF rPc' = "raised"
          THEN /\ kPc' = "raised"
               /\ kErr' = rErr'
               /\ kChecks' = Append(kChecks, "flag")
          ELSE /\ kPc' = IF c3.ok THEN "returned" ELSE "raised"
               /\ kErr' = c3.err
               /\ kChecks' = kChecks \o <<"flag", "iomem">>
    /\ UNCHANGED <<kArg, kCmdline, kFlagExists, kFlag, kIomem>>

\* the kernel finishes loading the crash kernel while the check waits
FlagLoaded ==
    /\ kPc = "flag"
    /\ kFlag # "1"
    /\ kFlag' = "1"
    /\ UNCHANGED <<kPc, kArg, kCmdline, kFlagExists, kIomem, kChecks, kErr>>

LoadedNext ==
    \/ \E m \in CrashkernelValues :
         check_crashkernel_loaded(m) /\ UNCHANGED <<regVars, readVars, utilVars, pollVars, opVars, initVars, verVars>>
    \/ LoadedAttempt /\ UNCHANGED <<regVars, readVars, utilVars, pollVars, opVars, initVars, verVars>>
    \/ FlagLoaded /\ UNCHANGED <<regVars, readVars, utilVars, pollVars, retryVars, opVars, initVars, verVars>>

----------------------------------------------------------------------------
(* Operations of the kdump tool on a node (lisa/tools/kdump.py)             *)

\* operating systems that have a kdump variant
KdumpOsChoices == {o \in OsChoices : KdumpBase_create(o) # Unsupported}

\* a remote command that was run: node.execute or tool.run
Command(cmd, sudo, exit, out) ==
    [cmd |-> cmd, sudo |-> sudo, exit |-> exit, out |-> out]

\* node.execute: the command is run and its result returned
Exec(st, cmd, sudo, exit, out) ==
    [st EXCEPT !.log = Append(@, Command(cmd, sudo, exit, out))]

\* result.assert_exit_code() on the last command
assert_exit_code(st, message) ==
    IF st.log[Len(st.log)].exit # 0
    THEN [st EXCEPT !.err = AssertionError(message)]
    ELSE st

\* KdumpBase.dump_path
dump_path == "/var/crash"

\* the directory KdumpRedhat.config_dump_path moves the dumps to
relocated_dump_path == "/mnt/crash"

kdump_conf == "/etc/kdump.conf"

check_memory_cmd == "free -h | grep Mem | awk '{print $2}'"

\* what the memory query prints
MemTexts == {"7.6Gi", "1.0Ti", "1.5Ti", "2Ti"}

\* exit codes of a remote command
ExitCodes == {0, 1}

\* sed -i "/^path/s/path/#path/g": the edit of the lines that start with path
SedCommentPath(lines) ==
    [i \in DOMAIN lines |->
        IF StartsWith(lines[i], "path")
        THEN ReplaceAll(lines[i], "path", "#path")
        ELSE lines[i]]

\* Sed.substitute and Sed.append on /etc/kdump.conf: the command is run with
\* sudo and its exit code asserted; the file changes when the command works
SedKdumpConf(st, cmd, exit, lines) ==
    LET s1 == assert_exit_code(Exec(st, cmd, TRUE, exit, ""), cmd)
    IN IF exit = 0 THEN [s1 EXCEPT !.conf = lines] ELSE s1

\* config_dump_path with a fault: a memory of exactly 1Ti relocates too
config_dump_path_from_1Ti(st, cls, env) ==
    IF cls # "KdumpRedhat" THEN st
    ELSE
    LET out == IF env.freeExit = 0 THEN env.mem ELSE ""
        s1 == Exec(st, check_memory_cmd, TRUE, env.freeExit, out)
        size == float(strip(out, {"T", "i"}))
        s2 == assert_exit_code(
                Exec([s1 EXCEPT !.dumpPath = relocated_dump_path],
                     "mkdir -p " \o relocated_dump_path, TRUE, env.mkdirExit, ""),
                "mkdir")
        s3 == SedKdumpConf(s2, "sed -i.bak /^path/s/path/#path/g " \o kdump_conf,
                           env.subExit, SedCommentPath(s2.conf))
        s4 == SedKdumpConf(s3, "sed -i.bak $apath " \o s3.dumpPath \o " " \o kdump_conf,
                           env.appExit, Append(s3.conf, "path " \o s3.dumpPath))
    IN IF ~Contains(out, "Ti") THEN s1
       ELSE IF ~size.ok THEN [s1 EXCEPT !.err = size.err]
       ELSE IF ~(size.value >= 10) THEN s1
       ELSE IF s2.err # NoErr THEN s2
       ELSE IF s3.err # NoErr THEN s3
       ELSE s4

\* KdumpBase.config_dump_path (does nothing) and KdumpRedhat.config_dump_path
config_dump_path(st, cls, env) ==
    IF cls # "KdumpRedhat" THEN st
    ELSE
    LET out == IF env.freeExit = 0 THEN env.mem ELSE ""
        s1 == Exec(st, check_memory_cmd, TRUE, env.freeExit, out)
        size == float(strip(out, {"T", "i"}))
        s2 == assert_exit_code(
                Exec([s1 EXCEPT !.dumpPath = relocated_dump_path],
                     "mkdir -p " \o relocated_dump_path, TRUE, env.mkdirExit, ""),
                "mkdir")
        s3 == SedKdumpConf(s2, "sed -i.bak /^path/s/path/#path/g " \o kdump_conf,
                           env.subExit, SedCommentPath(s2.conf))
        s4 == SedKdumpConf(s3, "sed -i.bak $apath " \o s3.dumpPath \o " " \o kdump_conf,
                           env.appExit, Append(s3.conf, "path " \o s3.dumpPath))
    IN IF ~Contains(out, "Ti") THEN s1
       ELSE IF ~size.ok THEN [s1 EXCEPT !.err = size.err]
       ELSE IF ~(size.value > 10) THEN s1
       ELSE IF s2.err # NoErr THEN s2
       ELSE IF s3.err # NoErr THEN s3
       ELSE s4

\* check_vmcore_exist with a fault: the search is in the default directory
check_vmcore_exist_default(st, vmcore, env) ==
    LET found == dump_path \in vmcore
        out == IF found THEN dump_path \o "/vmcore" ELSE ""
        s1 == Exec(st, "find " \o dump_path \o " -type f -size +10M", TRUE,
                   IF found THEN 0 ELSE env.findExit, out)
    IN IF out = ""
       THEN [s1 EXCEPT !.err = LisaException(
               "No file was found in /var/crash of size greater than 10M.")]
       ELSE s1

\* KdumpBase.check_vmcore_exist
check_vmcore_exist(st, vmcore, env) ==
    LET found == st.dumpPath \in vmcore
        out == IF found THEN st.dumpPath \o "/vmcore" ELSE ""
        s1 == Exec(st, "find " \o st.dumpPath \o " -type f -size +10M", TRUE,
                   IF found THEN 0 ELSE env.findExit, out)
    IN IF out = ""
       THEN [s1 EXCEPT !.err = LisaException(
               "No file was found in /var/crash of size greater than 10M.")]
       ELSE s1

\* KdumpBase.required_kernel_config
required_kernel_config == <<"CONFIG_KEXEC", "CONFIG_CRASH_DUMP", "CONFIG_PROC_VMCORE">>

RECURSIVE check_required_kernel_config_from(_, _, _, _)
\* the loop of check_required_kernel_config from its i-th entry: grep exits
\* with 0 when the kernel config file sets the entry
check_required_kernel_config_from(st, i, config_path, set) ==
    IF i > Len(required_kernel_config) THEN st
    ELSE LET config == required_kernel_config[i]
             s1 == assert_exit_code(
                     Exec(st, "grep " \o config \o "=y " \o config_path, FALSE,
                          IF config \in set THEN 0 ELSE 1,
                          IF config \in set THEN config \o "=y" ELSE ""),
                     "The kernel config is not set. Kdump is not supported.")
         IN IF s1.err # NoErr THEN s1
            ELSE check_required_kernel_config_from(s1, i + 1, config_path, set)

\* KdumpBase.check_required_kernel_config
check_required_kernel_config(st, config_path, set) ==
    check_required_kernel_config_from(st, 1, config_path, set)

\* contents of the crashkernel config file before the first edit
CfgFiles ==
    { <<"GRUB_CMDLINE_LINUX=\"ro\"">>,
      <<"GRUB_CMDLINE_LINUX=\"ro crashkernel=auto\"">>,
      <<"GRUB_CMDLINE_LINUX_DEFAULT=\"\"", "GRUB_CMDLINE_LINUX=\"ro\"">>,
      <<"# no crashkernel", "GRUB_CMDLINE_LINUX=\"ro\"">> }

\* whether a text occurs in a line of the file
InFile(lines, sub) == \E i \in DOMAIN lines : Contains(lines[i], sub)

RECURSIVE SkipValue(_)
\* the rest of a text after its longest prefix matching [^[:space:]"]*
SkipValue(text) ==
    IF Len(text) = 0 \/ SubSeq(text, 1, 1) \in {" ", "\""} THEN text
    ELSE SkipValue(SubSeq(text, 2, Len(text)))

RECURSIVE SetCrashkernel(_, _)
\* s/crashkernel=[^[:space:]"]*/crashkernel=<value>/g on one line
SetCrashkernel(text, value) ==
    IF Len(text) = 0 THEN text
    ELSE IF StartsWith(text, "crashkernel=")
    THEN "crashkernel=" \o value
         \o SetCrashkernel(SkipValue(SubSeq(text, 13, Len(text))), value)
    ELSE SubSeq(text, 1, 1) \o SetCrashkernel(SubSeq(text, 2, Len(text)), value)

\* s/"$/ crashkernel=<value>/ on one line
AppendCrashkernel(text, value) ==
    IF Len(text) > 0 /\ SubSeq(text, Len(text), Len(text)) = "\""
    THEN SubSeq(text, 1, Len(text) - 1) \o " crashkernel=" \o value
    ELSE text

\* the two sed.substitute calls of config_crashkernel_memory: the edit of the
\* lines that match ^GRUB_CMDLINE_LINUX
SedGrubLines(lines, replace, value) ==
    [i \in DOMAIN lines |->
        IF ~StartsWith(lines[i], "GRUB_CMDLINE_LINUX") THEN lines[i]
        ELSE IF replace THEN SetCrashkernel(lines[i], value)
        ELSE AppendCrashkernel(lines[i], value)]

NoCache == [exit |-> -1, out |-> <<>>]

\* cat.run(cfg_file, force_run): the cached result of the same command when
\* there is one and force_run is False, else the command is run and cached
CatRun(st, cfg_file, force_run, exit) ==
    IF ~force_run /\ st.cache # NoCache THEN st
    ELSE LET out == IF exit = 0 /\ st.cfgExists THEN st.cfg ELSE <<>>
             code == IF st.cfgExists THEN exit ELSE 1
         IN [Exec(st, "cat " \o cfg_file, FALSE, code, out)
               EXCEPT !.cache = [exit |-> code, out |-> out]]

\* Sed.substitute on the config file: run with sudo, exit code asserted
SedCfg(st, cfg_file, exit, lines) ==
    LET s1 == assert_exit_code(
                Exec(st, "sed -i.bak /^GRUB_CMDLINE_LINUX/s " \o cfg_file,
                     TRUE, exit, ""), "sed")
    IN IF exit = 0 THEN [s1 EXCEPT !.cfg = lines] ELSE s1

\* the grub update of config_crashkernel_memory
UpdateGrub(st, update_cmd, exit) ==
    assert_exit_code(Exec(st, update_cmd, TRUE, exit, ""), "Failed to update grub")

\* config_crashkernel_memory with a fault: the grub update does not wait for
\* the check of the edited file
config_crashkernel_memory_unverified(st, cls, o, crashkernel, env) ==
    LET cfg_file == _get_crashkernel_cfg_file(cls, o)
        update_cmd == _get_crashkernel_update_cmd(cls, o, env.efi, crashkernel)
        s1 == CatRun(st, cfg_file, FALSE, env.cat1Exit)
        s2 == SedCfg(s1, cfg_file, env.sedExit,
                     SedGrubLines(s1.cfg, InFile(s1.cache.out, "crashkernel"),
                                  crashkernel))
        s3 == CatRun(s2, cfg_file, TRUE, env.cat2Exit)
    IN IF cfg_file = "" THEN UpdateGrub(st, update_cmd, env.updExit)
       ELSE IF ~st.cfgExists
       THEN [st EXCEPT !.err = AssertionError(cfg_file \o " doesn't exist.")]
       ELSE IF s2.err # NoErr THEN s2
       ELSE UpdateGrub(s3, update_cmd, env.updExit)

\* KdumpBase.config_crashkernel_memory
config_crashkernel_memory(st, cls, o, crashkernel, env) ==
    LET cfg_file == _get_crashkernel_cfg_file(cls, o)
        update_cmd == _get_crashkernel_update_cmd(cls, o, env.efi, crashkernel)
        s1 == CatRun(st, cfg_file, FALSE, env.cat1Exit)
        s2 == SedCfg(s1, cfg_file, env.sedExit,
                     SedGrubLines(s1.cfg, InFile(s1.cache.out, "crashkernel"),
                                  crashkernel))
        s3 == CatRun(s2, cfg_file, TRUE, env.cat2Exit)
    IN IF cfg_file = "" THEN UpdateGrub(st, update_cmd, env.updExit)
       ELSE IF ~st.cfgExists
       THEN [st EXCEPT !.err = AssertionError(cfg_file \o " doesn't exist.")]
       ELSE IF s2.err # NoErr THEN s2
       ELSE IF ~InFile(s3.cache.out, "crashkernel=" \o crashkernel)
       THEN [s3 EXCEPT !.err = LisaException("No find crasherkel after insert")]
       ELSE UpdateGrub(s3, update_cmd, env.updExit)

\* a command of the Kexec tool, from the event the install procedures record
EventCommand(e) == Command(e.what, TRUE, IF e.ok THEN 0 ELSE 1, "")

NoOp == [name |-> "none", arg |-> ""]

\* no tool operation was called
OpsStill ==
    /\ oOs = [name |-> "Ubuntu", version |-> <<18, 4, 0>>]
    /\ oDumpPath = dump_path
    /\ oVmcore = {}
    /\ oConf = <<>>
    /\ oCfgExists = FALSE
    /\ oCfg = <<>>
    /\ oCatCache = NoCache
    /\ oCalls = 0
    /\ oOp = NoOp
    /\ oLog = <<>>
    /\ oErr = NoErr

\* a node with a resolved kdump tool, before the first operation
OpsInit ==
    /\ oOs \in KdumpOsChoices
    /\ oDumpPath = dump_path
    /\ oVmcore \in {{}, {dump_path}, {relocated_dump_path}}
    /\ oConf = <<"path /var/crash">>
    /\ oCfgExists \in BOOLEAN
    /\ oCfg \in (IF oCfgExists THEN CfgFiles ELSE {<<>>})
    /\ oCatCache = NoCache
    /\ oCalls = 0
    /\ oOp = NoOp
    /\ oLog = <<>>
    /\ oErr = NoErr

\* the class of the node's kdump tool
oCls == KdumpBase_create(oOs)

\* the tool instance and the node's files as an operation starts
OpsState ==
    [dumpPath |-> oDumpPath, conf |-> oConf, cfgExists |-> oCfgExists,
     cfg |-> oCfg, cache |-> oCatCache, log |-> <<>>, err |-> NoErr]

\* write the state an operation ended in
OpsCommit(name, arg, st) ==
    /\ oDumpPath' = st.dumpPath
    /\ oConf' = st.conf
    /\ oCfg' = st.cfg
    /\ oCatCache' = st.cache
    /\ oLog' = st.log
    /\ oErr' = st.err
    /\ oOp' = [name |-> name, arg |-> arg]
    /\ oCalls' = oCalls + 1
    /\ UNCHANGED <<oOs, oVmcore, oCfgExists>>

\* kdump.config_dump_path()
ConfigDumpPath ==
    /\ oCalls < MaxOps
    /\ \E freeExit \in ExitCodes :
       \E mem \in (IF freeExit = 0 THEN MemTexts ELSE {""}) :
       \E fail \in {"none", "mkdir", "substitute", "append"} :
         OpsCommit("config_dump_path", "",
            config_dump_path(OpsState, oCls,
               [freeExit |-> freeExit, mem |-> mem,
                mkdirExit |-> IF fail = "mkdir" THEN 1 ELSE 0,
                subExit |-> IF fail = "substitute" THEN 1 ELSE 0,
                appExit |-> IF fail = "append" THEN 1 ELSE 0]))

\* kdump.check_vmcore_exist()
CheckVmcoreExist ==
    /\ oCalls < MaxOps
    /\ \E findExit \in ExitCodes :
         OpsCommit("check_vmcore_exist", "",
            check_vmcore_exist(OpsState, oVmcore, [findExit |-> findExit]))

config_path == "/boot/config"

\* kdump.check_required_kernel_config(config_path)
CheckRequiredKernelConfig ==
    /\ oCalls < MaxOps
    /\ \E set \in SUBSET {required_kernel_config[i] :
                            i \in DOMAIN required_kernel_config} :
         OpsCommit("check_required_kernel_config", config_path,
            check_required_kernel_config(OpsState, config_path, set))

\* kdump.config_crashkernel_memory(crashkernel)
ConfigCrashkernelMemory(crashkernel) ==
    /\ oCalls < MaxOps
    /\ \E cat1Exit \in ExitCodes, sedExit \in ExitCodes, cat2Exit \in ExitCodes,
          updExit \in ExitCodes, efi \in BOOLEAN :
         OpsCommit("config_crashkernel_memory", crashkernel,
            config_crashkernel_memory(OpsState, oCls, oOs, crashkernel,
               [cat1Exit |-> cat1Exit, sedExit |-> sedExit, cat2Exit |-> cat2Exit,
                updExit |-> updExit, efi |-> efi]))

\* the state of the Kexec tool's node as one of its operations starts
KexecState(has, v) ==
    [present |-> IF has THEN {"kexec"} ELSE {},
     kexecVersion |-> IF has THEN v ELSE NoVersion,
     log |-> <<>>, err |-> NoErr, ok |-> FALSE, ver |-> NoVersion]

\* write the state an operation of the Kexec tool ended in
KexecCommit(name, st) ==
    /\ oLog' = [i \in DOMAIN st.log |-> EventCommand(st.log[i])]
    /\ oErr' = st.err
    /\ oOp' = [name |-> name, arg |-> ""]
    /\ oCalls' = oCalls + 1
    /\ UNCHANGED <<oOs, oDumpPath, oVmcore, oConf, oCfgExists, oCfg, oCatCache>>

\* kexec._get_version()
KexecGetVersion ==
    /\ oCalls < MaxOps
    /\ \E has \in BOOLEAN, v \in PackagedKexecVersions, q \in QueryOutcomes :
         KexecCommit("_get_version",
            Kexec__get_version(KexecState(has, v),
                               Env({}, {}, v, q, TRUE)))

\* kexec._install_from_src()
KexecInstallFromSrc ==
    /\ oCalls < MaxOps
    /\ \E b \in BOOLEAN :
         KexecCommit("_install_from_src",
            Kexec__install_from_src(KexecState(FALSE, NoVersion),
                                    Env({}, {}, DefaultKexecVersion, "ok", b)))

OpsNext ==
    \/ ConfigDumpPath /\ UNCHANGED <<regVars, readVars, utilVars, retryVars, pollVars, kdVars, initVars, verVars>>
    \/ CheckVmcoreExist /\ UNCHANGED <<regVars, readVars, utilVars, retryVars, pollVars, kdVars, initVars, verVars>>
    \/ CheckRequiredKernelConfig
         /\ UNCHANGED <<regVars, readVars, utilVars, retryVars, pollVars, kdVars, initVars, verVars>>
    \/ \E m \in CrashkernelValues :
         ConfigCrashkernelMemory(m)
           /\ UNCHANGED <<regVars, readVars, utilVars, retryVars, pollVars, kdVars, initVars, verVars>>
    \/ KexecGetVersion /\ UNCHANGED <<regVars, readVars, utilVars, retryVars, pollVars, kdVars, initVars, verVars>>
    \/ KexecInstallFromSrc /\ UNCHANGED <<regVars, readVars, utilVars, retryVars, pollVars, kdVars, initVars, verVars>>

----------------------------------------------------------------------------
(* The result cache of a tool, Tool.run(parameters, force_run), and the     *)
(* reads the checks, the poll and the configuration make through Cat        *)

\* the places that read a file with cat.run
ReadSites == {"flag", "cmdline", "iomem", "poll", "pre-edit", "post-edit"}

\* the file a place reads
ReadPath(site) ==
    CASE site = "flag"    -> kexec_crash
      [] site = "cmdline" -> "/proc/cmdline"
      [] site = "iomem"   -> "/proc/iomem"
      [] site = "poll"    -> "/sys/devices/system/clocksource/clocksource0/current_clocksource"
      [] OTHER            -> "/etc/default/grub"

ReadPaths == {ReadPath(site) : site \in ReadSites}

\* contents the file may have
ReadContents(path) ==
    CASE path = kexec_crash      -> FlagValues
      [] path = "/proc/cmdline"  -> Cmdlines
      [] path = "/proc/iomem"    -> Iomems
      [] path = "/etc/default/grub" ->
            {"GRUB_CMDLINE_LINUX=\"ro\"", "GRUB_CMDLINE_LINUX=\"ro crashkernel=512M",
             "GRUB_CMDLINE_LINUX=\"ro crashkernel=256M"}
      [] OTHER                   -> FileValues

\* ForceRun with a fault: no read asks for a fresh run
ForceRun_never(site) == FALSE

\* the force_run argument of the place's cat.run call
ForceRun(site) == site # "pre-edit"

\* Tool.run: the cached result of the same command when there is one and
\* force_run is False; else the command is run and its result cached
ToolRun(cached, current, force_run) ==
    IF ~force_run /\ cached # NoneValue
    THEN [stdout |-> cached, cached |-> cached]
    ELSE [stdout |-> current, cached |-> current]

NoRead == [site |-> "none", stdout |-> "", before |-> NoneValue]

\* no file is read
ReadStill ==
    /\ cPath = ""
    /\ cContent = ""
    /\ cCached = NoneValue
    /\ cRead = NoRead

NoCallYet == [fn |-> "none"]

\* the call was not made yet
NotRun == [done |-> FALSE]

\* the call was made and did this
Ran(value) == [done |-> TRUE, value |-> value]

\* no function was called
UtilStill ==
    /\ uIn = NoCallYet
    /\ uOut = NotRun

\* a file of the node and a Cat tool that has read nothing yet
ReadInit ==
    /\ cPath \in ReadPaths
    /\ cContent \in ReadContents(cPath)
    /\ cCached = NoneValue
    /\ cRead = NoRead

\* the node changes the file: the kernel sets the flag, sed edits the
\* configuration, the clock source is switched
NodeChanges(v) ==
    /\ v # cContent
    /\ cContent' = v
    /\ UNCHANGED <<cPath, cCached, cRead>>

\* a place reads the file: cat.run(path, force_run=...)
CatRead(site) ==
    /\ ReadPath(site) = cPath
    /\ LET r == ToolRun(cCached, cContent, ForceRun(site))
       IN /\ cRead' = [site |-> site, stdout |-> r.stdout, before |-> cCached]
          /\ cCached' = r.cached
    /\ UNCHANGED <<cPath, cContent>>

ReadNext ==
    \/ \E v \in ReadContents(cPath) :
         NodeChanges(v)
           /\ UNCHANGED <<regVars, utilVars, retryVars, pollVars, kdVars, opVars, initVars, verVars>>
    \/ \E site \in ReadSites :
         CatRead(site)
           /\ UNCHANGED <<regVars, utilVars, retryVars, pollVars, kdVars, opVars, initVars, verVars>>

----------------------------------------------------------------------------
(* Lazy one-time initialisation: InitializableMixin (lisa/util/__init__.py) *)

\* what a run of the body _initialize does: it completes ("ok") or raises
BodyOutcomes ==
    {"ok", "LisaException", "AssertionError", "ValueError", "NotImplementedError"}

\* InitializableMixin.__init__
InitializeInit ==
    /\ iInitialized = FALSE
    /\ iRuns = 0
    /\ iDone = 0
    /\ iTrace = <<>>

\* initialize with a fault: a failing body leaves the object initialised
initialize_no_reset(obj, body) ==
    IF ~obj.initialized
    THEN IF body = "ok"
         THEN [initialized |-> TRUE, ran |-> TRUE, err |-> NoErr]
         ELSE [initialized |-> TRUE, ran |-> TRUE, err |-> Error(body, "")]
    ELSE [initialized |-> obj.initialized, ran |-> FALSE, err |-> NoErr]

\* InitializableMixin.initialize: the flag is set before the body runs and
\* reset when the body raises an Exception, which is raised again
initialize(obj, body) ==
    IF ~obj.initialized
    THEN IF body = "ok"
         THEN [initialized |-> TRUE, ran |-> TRUE, err |-> NoErr]
         ELSE IF IsInstance(body, "Exception")
         THEN [initialized |-> FALSE, ran |-> TRUE, err |-> Error(body, "")]
         ELSE [initialized |-> TRUE, ran |-> TRUE, err |-> Error(body, "")]
    ELSE [initialized |-> obj.initialized, ran |-> FALSE, err |-> NoErr]

\* a caller calls obj.initialize()
Initialize(body) ==
    /\ Len(iTrace) < MaxInits
    /\ LET out == initialize([initialized |-> iInitialized], body)
       IN /\ iInitialized' = out.initialized
          /\ iRuns' = IF out.ran THEN iRuns + 1 ELSE iRuns
          /\ iDone' = IF out.ran /\ out.err = NoErr THEN iDone + 1 ELSE iDone
          /\ iTrace' = Append(iTrace, [ran |-> out.ran, err |-> out.err,
                                       body |-> IF out.ran THEN body ELSE "none"])

InitializeNext ==
    \E body \in BodyOutcomes :
        Initialize(body)
          /\ UNCHANGED <<regVars, readVars, utilVars, retryVars, pollVars, kdVars, opVars, verVars>>

\* initialize() statement by statement, for calls that overlap: a call made
\* from inside the body, or from another thread, while an earlier call is
\* still running. Each call of iTrace has a position: "test" (at the if),
\* "set" (the flag was found False), "body" (the flag is set, _initialize
\* runs), "except" (the body raised), and "returned" or "raised" at its end;
\* done is the number of successful completions of the body when it returned

\* a caller calls obj.initialize()
InitializeCall ==
    /\ Len(iTrace) < MaxInits
    /\ iTrace' = Append(iTrace, [pc |-> "test", ran |-> FALSE, err |-> NoErr,
                                 body |-> "none", done |-> 0])
    /\ UNCHANGED <<iInitialized, iRuns, iDone>>

\* if not self._is_initialized: a call that finds the flag set returns
InitializeTest(k) ==
    /\ iTrace[k].pc = "test"
    /\ iTrace' = [iTrace EXCEPT ![k].pc = IF iInitialized THEN "returned" ELSE "set",
                                ![k].done = iDone]
    /\ UNCHANGED <<iInitialized, iRuns, iDone>>

\* self._is_initialized = True, and the body is entered
InitializeSet(k) ==
    /\ iTrace[k].pc = "set"
    /\ iInitialized' = TRUE
    /\ iRuns' = iRuns + 1
    /\ iTrace' = [iTrace EXCEPT ![k].pc = "body", ![k].ran = TRUE]
    /\ UNCHANGED iDone

\* self._initialize(...) completes or raises
InitializeBody(k, body) ==
    /\ iTrace[k].pc = "body"
    /\ iDone' = IF body = "ok" THEN iDone + 1 ELSE iDone
    /\ iTrace' = [iTrace EXCEPT
                    ![k].pc = IF body = "ok" THEN "returned"
                              ELSE IF IsInstance(body, "Exception") THEN "except"
                              ELSE "raised",
                    ![k].body = body,
                    ![k].err = IF body = "ok" THEN NoErr ELSE Error(body, ""),
                    ![k].done = iDone']
    /\ UNCHANGED <<iInitialized, iRuns>>

\* except Exception: self._is_initialized = False, and the exception is
\* raised again
InitializeExcept(k) ==
    /\ iTrace[k].pc = "except"
    /\ iInitialized' = FALSE
    /\ iTrace' = [iTrace EXCEPT ![k].pc = "raised"]
    /\ UNCHANGED <<iRuns, iDone>>

OverlapNext ==
    \/ InitializeCall
         /\ UNCHANGED <<regVars, readVars, utilVars, retryVars, pollVars, kdVars, opVars, verVars>>
    \/ \E k \in DOMAIN iTrace :
         InitializeTest(k)
           /\ UNCHANGED <<regVars, readVars, utilVars, retryVars, pollVars, kdVars, opVars, verVars>>
    \/ \E k \in DOMAIN iTrace :
         InitializeSet(k)
           /\ UNCHANGED <<regVars, readVars, utilVars, retryVars, pollVars, kdVars, opVars, verVars>>
    \/ \E k \in DOMAIN iTrace, body \in BodyOutcomes :
         InitializeBody(k, body)
           /\ UNCHANGED <<regVars, readVars, utilVars, retryVars, pollVars, kdVars, opVars, verVars>>
    \/ \E k \in DOMAIN iTrace :
         InitializeExcept(k)
           /\ UNCHANGED <<regVars, readVars, utilVars, retryVars, pollVars, kdVars, opVars, verVars>>

----------------------------------------------------------------------------
(* parse_version (lisa/util/__init__.py)                                    *)

\* (?:\.|\-|\_)
Separators == {".", "-", "_"}

\* the match of __version_info_pattern against a text without line breaks:
\* the groups the regular expression engine settles on, NoneValue for a
\* group that took no part, and the text after the match
LenientMatch(text) ==
    LET s0    == IF Len(text) > 0 /\ CharAt(text, 1) \in {"v", "V"}
                 THEN SubSeq(text, 2, Len(text)) ELSE text
        j     == DigitRun(s0)
        major == SubSeq(s0, 1, j)
        s1    == SubSeq(s0, j + 2, Len(s0))
        k     == DigitRun(s1)
        minor == SubSeq(s1, 1, k)
        rest  == SubSeq(s1, k + 1, Len(s1))
        x     == SubSeq(rest, 2, Len(rest))
        d     == DigitRun(x)
        r     == SubSeq(x, d + 1, Len(x))
        groups(patch, prerelease) ==
            [matched |-> TRUE, major |-> major, minor |-> minor, patch |-> patch,
             prerelease |-> prerelease, rest |-> ""]
        none  == [matched |-> FALSE, major |-> NoneValue, minor |-> NoneValue,
                  patch |-> NoneValue, prerelease |-> NoneValue, rest |-> ""]
    IN IF j >= Len(s0) \/ CharAt(s0, j + 1) \notin Separators THEN none
       ELSE IF Len(rest) = 0 THEN groups(NoneValue, NoneValue)
       ELSE IF CharAt(rest, 1) \notin Separators THEN none
       \* an empty patch, then the prerelease after a second separator
       ELSE IF Len(x) > 0 /\ CharAt(x, 1) \in Separators
       THEN groups("", SubSeq(x, 2, Len(x)))
       ELSE IF Len(x) = 0 THEN groups("", NoneValue)
       \* the patch digits, then the end or a separator and the prerelease
       ELSE IF d > 0 /\ Len(r) = 0 THEN groups(SubSeq(x, 1, d), NoneValue)
       ELSE IF d > 0 /\ CharAt(r, 1) \in Separators
       THEN groups(SubSeq(x, 1, d), SubSeq(r, 2, Len(r)))
       \* no patch: the prerelease follows the minor
       ELSE groups(NoneValue, x)

NoVersionInfo == VersionInfo(-1, -1, -1, NoneValue, NoneValue)

Parsed(v) == [ok |-> TRUE, value |-> v, err |-> NoErr]

ParseFailed(e) == [ok |-> FALSE, value |-> NoVersionInfo, err |-> e]

\* 0 if value is None else int(value)
GroupNumber(value) ==
    IF value = NoneValue THEN [ok |-> TRUE, value |-> 0, err |-> NoErr]
    ELSE int(value)

\* parse_version with a fault: a canonical text goes through the lenient
\* pattern too
parse_version_lenient_only(version) ==
    LET match == LenientMatch(version)
        major == GroupNumber(match.major)
        minor == GroupNumber(match.minor)
        patch == GroupNumber(match.patch)
    IN IF ~match.matched
       THEN ParseFailed(LisaException("The version is invalid format"))
       ELSE IF ~major.ok THEN ParseFailed(major.err)
       ELSE IF ~minor.ok THEN ParseFailed(minor.err)
       ELSE IF ~patch.ok THEN ParseFailed(patch.err)
       ELSE Parsed(VersionInfo(major.value, minor.value, patch.value,
                               match.prerelease, match.rest))

\* parse_version
parse_version(version) ==
    LET match == LenientMatch(version)
        major == GroupNumber(match.major)
        minor == GroupNumber(match.minor)
        patch == GroupNumber(match.patch)
    IN IF VersionInfo_isvalid(version) THEN Parsed(VersionInfo_parse(version))
       ELSE IF ~match.matched
       THEN ParseFailed(LisaException("The version is invalid format"))
       ELSE IF ~major.ok THEN ParseFailed(major.err)
       ELSE IF ~minor.ok THEN ParseFailed(minor.err)
       ELSE IF ~patch.ok THEN ParseFailed(patch.err)
       ELSE Parsed(VersionInfo(major.value, minor.value, patch.value,
                               match.prerelease, match.rest))

\* the characters of the generated texts
ParseAlphabet == {"1", ".", "-", "_", "v", "b"}

RECURSIVE TextsOfLen(_)
TextsOfLen(n) ==
    IF n = 0 THEN {""}
    ELSE {t \o c : t \in TextsOfLen(n - 1), c \in ParseAlphabet}

\* version texts of the documentation, the tests and the tools
ExampleTexts ==
    {"2.0.15", "18.04", "18.04.5", "v1.2.3-beta", "V1_2_3", "1-2-3", "1_2",
     ".-beta", "1.", "1.2-", "1.2.3-rc.1+build", "10.0.22000.100", "beta",
     "1.0.0", "0.1", "01.1", "1.00", "1.0.0-0", "8.0.0-0", "V0_0",
     "10.0.22000.100 extra", "1.2.3-rc 1"}

VersionTexts == ExampleTexts \cup UNION {TextsOfLen(n) : n \in 0..MaxLen}

NotParsed == [ok |-> FALSE, value |-> NoVersionInfo, err |-> NoErr]

\* versions to compare
VersionSamples ==
    {VersionInfo(t[1], t[2], t[3], p, NoneValue) :
        t \in {<<1, 0, 0>>, <<2, 0, 9>>, <<2, 0, 14>>, <<2, 0, 15>>, <<2, 0, 16>>,
               <<2, 1, 0>>},
        p \in {NoneValue, "rc1", "0"}}
    \cup {VersionInfo(1, 0, 0, "rc.2", NoneValue),
          VersionInfo(1, 0, 0, "rc.10", "build"),
          VersionInfo(2, 0, 15, NoneValue, "build")}

NoCmp == [ab |-> 0, ba |-> 0, bc |-> 0, ac |-> 0, done |-> FALSE]

\* nothing was parsed or compared
VersionStill ==
    /\ vText = ""
    /\ vOut = NotParsed
    /\ vVersions = <<NoVersionInfo, NoVersionInfo, NoVersionInfo>>
    /\ vCmp = NoCmp

\* a text about to be parsed
ParseInit ==
    /\ vText \in VersionTexts
    /\ vOut = NotParsed
    /\ vVersions = <<NoVersionInfo, NoVersionInfo, NoVersionInfo>>
    /\ vCmp = NoCmp

\* a caller calls parse_version(vText)
Parse ==
    /\ vOut = NotParsed
    /\ vOut' = parse_version(vText)
    /\ UNCHANGED <<vText, vVersions, vCmp>>

ParseNext == Parse /\ UNCHANGED <<regVars, readVars, utilVars, retryVars, pollVars, kdVars, opVars, initVars>>

\* three versions about to be compared
CompareInit ==
    /\ vText = ""
    /\ vOut = NotParsed
    /\ vVersions \in VersionSamples \X VersionSamples \X VersionSamples
    /\ vCmp = NoCmp

\* a caller compares the versions pairwise
Compare ==
    /\ ~vCmp.done
    /\ vCmp' = [ab |-> compare(vVersions[1], vVersions[2]),
                ba |-> compare(vVersions[2], vVersions[1]),
                bc |-> compare(vVersions[2], vVersions[3]),
                ac |-> compare(vVersions[1], vVersions[3]),
                done |-> TRUE]
    /\ UNCHANGED <<vText, vOut, vVersions>>

CompareNext ==
    Compare /\ UNCHANGED <<regVars, readVars, utilVars, retryVars, pollVars, kdVars, opVars, initVars>>

\* no operation of this part is running
ExtStill ==
    LoadedStill /\ OpsStill /\ InitializeInit /\ VersionStill /\ ReadStill /\ UtilStill

----------------------------------------------------------------------------
(* Pattern search over lines (lisa/util/__init__.py) *)

\* a compiled pattern "<prefix>(?P<group>.*)"
Pattern(prefix, group) == [prefix |-> prefix, group |-> group]

\* pattern.match(line): the match is anchored at the start of the line
match(pattern, line) == StartsWith(line, pattern.prefix)

\* matched.groupdict()
groupdict(pattern, line) ==
    pattern.group :> SubSeq(line, Len(pattern.prefix) + 1, Len(line))

\* str.splitlines(keepends=False)
splitlines(text) ==
    LET parts == Split(text, "\n")
    IN IF text = "" THEN <<>>
       ELSE IF parts[Len(parts)] = "" THEN SubSeq(parts, 1, Len(parts) - 1)
       ELSE parts

RECURSIVE MatchPatterns(_, _, _, _, _)
\* the inner loop of find_patterns_groups_in_lines from the pattern at index:
\* results[index].append(...) appends to the list object results[index]
\* refers to
MatchPatterns(heap, results, line, patterns, index) ==
    IF index > Len(patterns) THEN heap
    ELSE MatchPatterns(
           IF match(patterns[index], line)
           THEN [heap EXCEPT ![results[index]] =
                   Append(@, groupdict(patterns[index], line))]
           ELSE heap,
           results, line, patterns, index + 1)

RECURSIVE MatchLines(_, _, _, _)
\* the outer loop of find_patterns_groups_in_lines
MatchLines(heap, results, lines, patterns) ==
    IF lines = <<>> THEN heap
    ELSE MatchLines(MatchPatterns(heap, results, Head(lines), patterns, 1),
                    results, Tail(lines), patterns)

\* find_patterns_groups_in_lines: [[]] * len(patterns) is a list whose
\* entries all refer to one list object (object 1 of the heap); the value
\* returned shows, for each entry, the list it refers to
find_patterns_groups_in_lines(lines, patterns) ==
    LET results == [i \in 1..Len(patterns) |-> 1]
        heap == MatchLines([obj \in {1} |-> <<>>], results, splitlines(lines),
                           patterns)
    IN [i \in 1..Len(patterns) |-> heap[results[i]]]

LineTexts == {"a1", "b2", "ab"}

RECURSIVE JoinLines(_)
JoinLines(ls) ==
    IF ls = <<>> THEN ""
    ELSE IF Len(ls) = 1 THEN ls[1]
    ELSE ls[1] \o "\n" \o JoinLines(Tail(ls))

\* texts of up to MaxLines lines, with and without a closing newline
LinesTexts ==
    LET seqs == UNION {[1..k -> LineTexts] : k \in 0..MaxLines}
    IN {JoinLines(ls) : ls \in seqs} \cup {JoinLines(ls) \o "\n" : ls \in seqs}

PatternChoices == {Pattern("a", "x"), Pattern("b", "y"), Pattern("", "z")}

PatternLists == UNION {[1..k -> PatternChoices] : k \in 0..2}

\* a call of find_patterns_groups_in_lines about to be made
FindInit ==
    /\ uIn \in {[fn |-> "find_patterns_groups_in_lines", lines |-> t,
                 patterns |-> ps] : t \in LinesTexts, ps \in PatternLists}
    /\ uOut = NotRun

\* find_patterns_groups_in_lines(lines, patterns)
Find ==
    /\ uIn.fn = "find_patterns_groups_in_lines"
    /\ uOut = NotRun
    /\ uOut' = Ran(find_patterns_groups_in_lines(uIn.lines, uIn.patterns))
    /\ UNCHANGED uIn

FindNext ==
    Find /\ UNCHANGED <<regVars, readVars, retryVars, pollVars, kdVars, opVars, initVars, verVars>>

----------------------------------------------------------------------------
(* Deep merge of dictionaries (lisa/util/__init__.py) *)

\* Python values: numbers, text, None, lists and dictionaries
PyInt(text) == [kind |-> "int", v |-> text]

PyStr(text) == [kind |-> "str", v |-> text]

PyNone == [kind |-> "NoneType", v |-> "None"]

PyList(text) == [kind |-> "list", v |-> text]

\* a dict, as the function from its keys to its values
PyDict(items) == [kind |-> "dict", items |-> items]

\* the exception of an attribute lookup that fails
AttributeError(detail) == Error("AttributeError", detail)

RECURSIVE deep_update_dict(_, _)
\* deep_update_dict(src, dest): dest.copy() is a new dict or list, so the
\* assignments to result leave dest as it was; str and None have no copy
\* method, and a value that is no dict has no items method
deep_update_dict(src, dest) ==
    IF dest.kind \notin {"int", "bool", "float", "dict", "list"}
    THEN Raised(AttributeError(dest.kind \o " object has no attribute copy"))
    ELSE IF dest.kind = "dict"
    THEN IF src.kind # "dict"
         THEN Raised(AttributeError(src.kind \o " object has no attribute items"))
         ELSE LET merged(key) == deep_update_dict(src.items[key], dest.items[key])
                  nested == {key \in DOMAIN src.items :
                               /\ src.items[key].kind = "dict"
                               /\ key \in DOMAIN dest.items}
                  failed == {key \in nested : ~merged(key).ok}
              IN IF failed # {}
                 THEN merged(CHOOSE key \in failed : TRUE)
                 ELSE Returned(PyDict(
                        [key \in DOMAIN dest.items \cup DOMAIN src.items |->
                           IF key \in nested THEN merged(key).value
                           ELSE IF key \in DOMAIN src.items THEN src.items[key]
                           ELSE dest.items[key]]))
    ELSE Returned(src)

\* a dict with the given keys and values
DictOf(keys, values) == {PyDict(f) : f \in [keys -> values]}

\* dictionaries one level deep
InnerDicts ==
    { PyDict([key \in {"a"} |-> PyInt("1")]),
      PyDict([key \in {"a", "b"} |-> IF key = "a" THEN PyStr("s") ELSE PyInt("2")]) }

PyValues == {PyInt("1"), PyStr("s"), PyNone, PyList("[1]")} \cup InnerDicts

\* dictionaries two levels deep over the keys k and m
OuterDicts == UNION {DictOf(keys, PyValues) : keys \in SUBSET {"k", "m"}}

\* a call of deep_update_dict about to be made
DeepUpdateInit ==
    /\ uIn \in {[fn |-> "deep_update_dict", src |-> src, dest |-> dest] :
                  src \in OuterDicts, dest \in OuterDicts}
    /\ uOut = NotRun

\* deep_update_dict(src, dest)
DeepUpdate ==
    /\ uIn.fn = "deep_update_dict"
    /\ uOut = NotRun
    /\ uOut' = Ran(deep_update_dict(uIn.src, uIn.dest))
    /\ UNCHANGED uIn

DeepUpdateNext ==
    DeepUpdate /\ UNCHANGED <<regVars, readVars, retryVars, pollVars, kdVars, opVars, initVars, verVars>>

----------------------------------------------------------------------------
(* Network test helpers (microsoft/testsuites/network/common.py) *)

\* a digit as text
NumberText(n) == SubSeq("0123456789", n + 1, n + 1)

\* lisa.nic.NicInfo: the synthetic interface (upper), its VF (lower) and the
\* subnet of its address
NicInfo(upper, lower, subnet) == [upper |-> upper, lower |-> lower, subnet |-> subnet]

\* the interfaces of the source node, one subnet each
SourceNics(k) ==
    [i \in 1..k |-> NicInfo("eth" \o NumberText(i), "vf" \o NumberText(i), i)]

\* the interfaces of the destination node; the interface "lost" is in a
\* subnet no source interface is in
DestNics(k, lost) ==
    [i \in 1..k |-> NicInfo("eth" \o NumberText(i), "vf" \o NumberText(i),
                            IF i = lost THEN 0 ELSE i)]

\* a step of the test on a node
Step(node, what, nic) == [node |-> node, what |-> what, nic |-> nic]

\* node.execute(...) and get_packets(...) of the test, as steps
Did(st, node, what, nic) == [st EXCEPT !.steps = Append(@, Step(node, what, nic))]

max_retry_times == 10

RECURSIVE Ping(_, _, _, _)
\* the ping loop from its n-th pass; fails is the number of pings that fail
\* before one works
Ping(st, nic, fails, n) ==
    IF n > max_retry_times THEN st
    ELSE LET s1 == Did(st, "source", IF n > fails THEN "ping ok" ELSE "ping failed", nic)
         IN IF n > fails THEN s1 ELSE Ping(s1, nic, fails, n + 1)

\* what the nodes answer during one pass of the loop over the interfaces:
\* the pings that fail first, whether scp works, whether the counters grew
PassOutcomes ==
    { [pingFails |-> 0, scp |-> TRUE, tx |-> TRUE, rx |-> TRUE],
      [pingFails |-> 2, scp |-> TRUE, tx |-> TRUE, rx |-> TRUE],
      [pingFails |-> 10, scp |-> TRUE, tx |-> TRUE, rx |-> TRUE],
      [pingFails |-> 0, scp |-> FALSE, tx |-> TRUE, rx |-> TRUE],
      [pingFails |-> 0, scp |-> TRUE, tx |-> FALSE, rx |-> TRUE],
      [pingFails |-> 0, scp |-> TRUE, tx |-> TRUE, rx |-> FALSE] }

\* one pass of the loop of sriov_vf_connection_test
ConnectionPass(st, source_nic_info, dest_nics, turn_off_vf, remove_module, e) ==
    LET matches == {j \in DOMAIN dest_nics :
                      dest_nics[j].subnet = source_nic_info.subnet}
        desc_nic_info == dest_nics[CHOOSE j \in matches : \A m \in matches : j <= m]
        source_synthetic_nic == source_nic_info.upper
        dest_synthetic_nic == desc_nic_info.upper
        source_vf_nic == source_nic_info.lower
        dest_vf_nic == desc_nic_info.lower
        source_nic == IF remove_module \/ turn_off_vf THEN source_synthetic_nic
                      ELSE source_vf_nic
        dest_nic == IF remove_module \/ turn_off_vf THEN dest_synthetic_nic
                    ELSE dest_vf_nic
        s1 == IF turn_off_vf
              THEN Did(Did(st, "source", "down", source_vf_nic),
                       "dest", "down", dest_vf_nic)
              ELSE st
        s2 == Did(Did(s1, "source", "tx_packets", source_nic),
                  "dest", "rx_packets", dest_nic)
        s3 == Ping(s2, source_synthetic_nic, e.pingFails, 1)
        s4 == Did(s3, "source", IF e.scp THEN "scp ok" ELSE "scp failed", "")
        s5 == Did(Did(s4, "source", "tx_packets", source_nic),
                  "dest", "rx_packets", dest_nic)
        s6 == IF turn_off_vf
              THEN Did(Did(s5, "source", "up", source_vf_nic),
                       "dest", "up", dest_vf_nic)
              ELSE s5
    IN IF matches = {}
       THEN [st EXCEPT !.err = AssertionError("can't find the same subnet nic")]
       ELSE IF e.pingFails >= max_retry_times
       THEN [s3 EXCEPT !.err = AssertionError("fail to ping")]
       ELSE IF ~e.scp
       THEN [s4 EXCEPT !.err = AssertionError("Fail to copy file large_file")]
       ELSE IF ~e.tx
       THEN [s5 EXCEPT !.err = AssertionError("insufficient TX packets sent")]
       ELSE IF ~e.rx
       THEN [s5 EXCEPT !.err = AssertionError("insufficient RX packets received")]
       ELSE s6

RECURSIVE ConnectionLoop(_, _, _, _, _, _, _)
\* the loop over the interfaces of the source node, from the i-th
ConnectionLoop(st, source_nics, dest_nics, turn_off_vf, remove_module, env, i) ==
    IF i > Len(source_nics) \/ st.err # NoErr THEN st
    ELSE ConnectionLoop(
           ConnectionPass(st, source_nics[i], dest_nics, turn_off_vf,
                          remove_module, env[i]),
           source_nics, dest_nics, turn_off_vf, remove_module, env, i + 1)

\* sriov_vf_connection_test, after the key exchange and the dd of the file
sriov_vf_connection_test(source_nics, dest_nics, turn_off_vf, remove_module, env) ==
    ConnectionLoop([steps |-> <<>>, err |-> NoErr], source_nics, dest_nics,
                   turn_off_vf, remove_module, env, 1)

\* a call of sriov_vf_connection_test about to be made
ConnectionInit ==
    /\ uIn \in {[fn |-> "sriov_vf_connection_test", source |-> SourceNics(k),
                 dest |-> DestNics(k, lost), turn_off_vf |-> t,
                 remove_module |-> r, env |-> env] :
                  k \in 1..MaxNics, lost \in {0, 1}, t \in BOOLEAN, r \in BOOLEAN,
                  env \in [1..MaxNics -> PassOutcomes]}
    /\ uOut = NotRun

\* sriov_vf_connection_test(environment, vm_nics, turn_off_vf, remove_module)
ConnectionTest ==
    /\ uIn.fn = "sriov_vf_connection_test"
    /\ uOut = NotRun
    /\ uOut' = Ran(sriov_vf_connection_test(uIn.source, uIn.dest, uIn.turn_off_vf,
                                            uIn.remove_module, uIn.env))
    /\ UNCHANGED uIn

ConnectionNext ==
    ConnectionTest /\ UNCHANGED <<regVars, readVars, retryVars, pollVars, kdVars, opVars, initVars, verVars>>

RECURSIVE RemoveLoop(_, _, _)
\* the loop of remove_extra_nics from the i-th node of nodes.list(): the loop
\* variable is assigned environment.nodes[0] at the top of the body, and the
\* removal runs on the node it names; extra[n] is the number of extra
\* interfaces of the n-th node
RemoveLoop(st, count, i) ==
    IF i > count THEN st
    ELSE LET node == 1
         IN RemoveLoop([calls |-> Append(st.calls, node),
                        extra |-> [st.extra EXCEPT ![node] = 0]],
                       count, i + 1)

\* remove_extra_nics(environment): the nodes the removal was invoked on, in
\* order, and the extra interfaces the nodes are left with
remove_extra_nics(extra) ==
    RemoveLoop([calls |-> <<>>, extra |-> extra], Len(extra), 1)

\* environments of one node and more, by the extra interfaces of each node
Environments == UNION {[1..n -> 0..MaxExtra] : n \in 1..MaxNodes}

\* a call of remove_extra_nics about to be made
RemoveInit ==
    /\ uIn \in {[fn |-> "remove_extra_nics", extra |-> x] : x \in Environments}
    /\ uOut = NotRun

\* remove_extra_nics(environment)
RemoveExtraNics ==
    /\ uIn.fn = "remove_extra_nics"
    /\ uOut = NotRun
    /\ uOut' = Ran(remove_extra_nics(uIn.extra))
    /\ UNCHANGED uIn

RemoveNext ==
    RemoveExtraNics /\ UNCHANGED <<regVars, readVars, retryVars, pollVars, kdVars, opVars, initVars, verVars>>

----------------------------------------------------------------------------
(* Specifications *)

\* the registry at rest
RegStill ==
    /\ os = [n \in Nodes |-> [name |-> "Ubuntu", version |-> <<18, 4, 0>>]]
    /\ cache = [n \in Nodes |-> [t \in ToolIds |-> NoTool]]
    /\ present = [n \in Nodes |-> {}]
    /\ kexecVersion = [n \in Nodes |-> NoVersion]
    /\ created = [n \in Nodes |-> [t \in ToolIds |-> 0]]
    /\ installs = [n \in Nodes |-> [t \in ToolIds |-> 0]]
    /\ enabled = [n \in Nodes |-> {}]
    /\ ncalls = 0
    /\ call = NoCall
    /\ log = <<>>
    /\ result = NoTool
    /\ err = NoErr

\* resolve calls and tool operations on the nodes of a run
Init == RegInit /\ RetryInit /\ PollInit /\ ExtStill

Next == RegNext

Spec == Init /\ [][Next]_vars

\* calls of the install procedure of Kexec
SpecKexecInstall == Init /\ [][KexecInstallNext]_vars

\* a call of find_patterns_groups_in_lines
InitFind ==
    RegStill /\ RetryInit /\ PollInit /\ LoadedStill /\ OpsStill /\ InitializeInit
    /\ VersionStill /\ ReadStill /\ FindInit

SpecFind == InitFind /\ [][FindNext]_vars

\* a call of deep_update_dict
InitDeepUpdate ==
    RegStill /\ RetryInit /\ PollInit /\ LoadedStill /\ OpsStill /\ InitializeInit
    /\ VersionStill /\ ReadStill /\ DeepUpdateInit

SpecDeepUpdate == InitDeepUpdate /\ [][DeepUpdateNext]_vars

\* a call of sriov_vf_connection_test
InitConnection ==
    RegStill /\ RetryInit /\ PollInit /\ LoadedStill /\ OpsStill /\ InitializeInit
    /\ VersionStill /\ ReadStill /\ ConnectionInit

SpecConnection == InitConnection /\ [][ConnectionNext]_vars

\* a call of remove_extra_nics
InitRemove ==
    RegStill /\ RetryInit /\ PollInit /\ LoadedStill /\ OpsStill /\ InitializeInit
    /\ VersionStill /\ ReadStill /\ RemoveInit

SpecRemove == InitRemove /\ [][RemoveNext]_vars

\* a call of an operation under bounded retry
InitRetry == RegStill /\ RetryInit /\ PollInit /\ ExtStill

SpecRetry == InitRetry /\ [][RetryNext]_vars

\* a call of the file poll
InitPoll == RegStill /\ RetryInit /\ PollInit /\ ExtStill

SpecPoll == InitPoll /\ [][PollNext]_vars

\* a call of check_crashkernel_loaded on a node
InitLoaded ==
    RegStill /\ RetryInit /\ PollInit /\ ReadStill /\ UtilStill /\ LoadedInit /\ OpsStill /\ InitializeInit
    /\ VersionStill

SpecLoaded == InitLoaded /\ [][LoadedNext]_vars

\* operations of the kdump tool and of Kexec on a node
InitOps ==
    RegStill /\ RetryInit /\ PollInit /\ ReadStill /\ UtilStill /\ LoadedStill /\ OpsInit /\ InitializeInit
    /\ VersionStill

SpecOps == InitOps /\ [][OpsNext]_vars

\* Redhat nodes around the version the Redhat hooks switch at, prereleases
\* of 8.0.0 included
RedhatVersions ==
    {[name |-> "Redhat", version |-> t, prerelease |-> p] :
        t \in {<<7, 9, 0>>, <<8, 0, 0>>, <<8, 1, 0>>},
        p \in {NoneValue, "0", "rc1"}}

\* a node whose bootloader is about to be configured
CrashkernelInit ==
    /\ oOs \in KdumpOsChoices \cup RedhatVersions
    /\ oDumpPath = dump_path
    /\ oVmcore = {}
    /\ oConf = <<"path /var/crash">>
    /\ oCfgExists \in BOOLEAN
    /\ oCfg \in (IF oCfgExists THEN CfgFiles ELSE {<<>>})
    /\ oCatCache = NoCache
    /\ oCalls = 0
    /\ oOp = NoOp
    /\ oLog = <<>>
    /\ oErr = NoErr

\* calls of config_crashkernel_memory, one after another
CrashkernelNext ==
    \E m \in CrashkernelValues :
        ConfigCrashkernelMemory(m)
          /\ UNCHANGED <<regVars, readVars, utilVars, retryVars, pollVars, kdVars, initVars, verVars>>

InitCrashkernel ==
    RegStill /\ RetryInit /\ PollInit /\ ReadStill /\ UtilStill /\ LoadedStill /\ CrashkernelInit
    /\ InitializeInit /\ VersionStill

SpecCrashkernel == InitCrashkernel /\ [][CrashkernelNext]_vars

\* calls of config_dump_path, one after another
DumpPathNext ==
    ConfigDumpPath
      /\ UNCHANGED <<regVars, readVars, utilVars, retryVars, pollVars, kdVars, initVars, verVars>>

SpecDumpPath == InitOps /\ [][DumpPathNext]_vars

\* a sequence of initialize() calls on one object
InitInitialize == RegStill /\ RetryInit /\ PollInit /\ ExtStill

SpecInitialize == InitInitialize /\ [][InitializeNext]_vars

\* initialize() calls on one object that may overlap
SpecOverlap == InitInitialize /\ [][OverlapNext]_vars

\* a call of parse_version
InitParse ==
    RegStill /\ RetryInit /\ PollInit /\ ReadStill /\ UtilStill /\ LoadedStill /\ OpsStill /\ InitializeInit
    /\ ParseInit

SpecParse == InitParse /\ [][ParseNext]_vars

\* comparisons of versions
InitCompare ==
    RegStill /\ RetryInit /\ PollInit /\ ReadStill /\ UtilStill /\ LoadedStill /\ OpsStill /\ InitializeInit
    /\ CompareInit

SpecCompare == InitCompare /\ [][CompareNext]_vars

\* reads of one file of a node through the Cat tool
InitReads ==
    RegStill /\ RetryInit /\ PollInit /\ LoadedStill /\ OpsStill /\ InitializeInit
    /\ VersionStill /\ ReadInit /\ UtilStill

SpecReads == InitReads /\ [][ReadNext]_vars

\* a call of the file poll whose loop keeps running: the interpreter takes
\* the next pass of the while loop, or leaves it, whenever it can
PollRun ==
    \/ \E d \in 0..MaxReadTicks, v \in FileValues :
         PollIterate(d, v) /\ UNCHANGED <<regVars, retryVars, extVars>>
    \/ PollTimeout /\ UNCHANGED <<regVars, retryVars, extVars>>

SpecPollLive == InitPoll /\ [][PollNext]_vars /\ WF_vars(PollRun)

----------------------------------------------------------------------------
(* Properties of the registry *)

IsResolve(c) == c.op = "resolve"

\* positions of the log that hold an event ev about what
Positions(ev, what) ==
    {i \in DOMAIN log : log[i].ev = ev /\ log[i].what = what}

Last(S) == CHOOSE i \in S : \A j \in S : j <= i

\* C1: a resolve of a cached tool returns the cached instance itself, runs
\* no command on the node (empty event log: no probe, no install), and
\* leaves every cache, the node's commands and all counters as they were;
\* as a property of every step it covers each later call as well.
C1_CachedResolveHasNoEffect ==
    [][\A n \in Nodes, t \in ToolIds :
         (/\ cache[n][t] # NoTool
          /\ ncalls' = ncalls + 1
          /\ IsResolve(call') /\ call'.node = n /\ call'.tool = t)
         => /\ result' = cache[n][t]
            /\ err' = NoErr
            /\ log' = <<>>
            /\ cache' = cache
            /\ present' = present
            /\ installs' = installs
            /\ created' = created]_vars

\* a second request for a tool that is already cached has been served
C1_Witness ==
    /\ IsResolve(call) /\ call.hit
    /\ result # NoTool
    /\ result = cache[call.node][call.tool]

\* C2 (as claimed): over any sequence of resolve calls, failing ones
\* included, the install procedure of a tool runs at most once on a node.
C2_InstallAtMostOnce ==
    \A n \in Nodes, t \in ToolIds : installs[n][t] <= 1

\* C2 (amended): the install procedure of a tool never runs once the tool is
\* in the node's cache, and a single call runs it at most once; only a
\* resolve that failed, which leaves no cache entry, is followed by another
\* run of the install procedure.
C2_NoInstallOnceCached ==
    [][\A n \in Nodes, t \in ToolIds :
         /\ installs'[n][t] <= installs[n][t] + 1
         /\ cache[n][t] # NoTool => installs'[n][t] = installs[n][t]
         /\ installs'[n][t] > installs[n][t] /\ installs[n][t] > 0
              => cache[n][t] = NoTool]_vars

\* a tool was installed, cached, and then requested again
C2_Witness ==
    /\ IsResolve(call) /\ call.hit
    /\ installs[call.node][call.tool] = 1

\* C3: an instance is returned and cached only after a successful probe of
\* the tool (the last probe of the call); a tool that is absent and not
\* installable, or absent in the probe that ends its install procedure,
\* gives a missing-capability error, and no failed resolve leaves a cache
\* entry for the tool.
C3_CachedOnlyIfProbed ==
    /\ \A n \in Nodes, t \in ToolIds :
         cache[n][t] # NoTool => command(cache[n][t].cls) \in present[n]
    /\ (IsResolve(call) /\ ~call.hit) =>
         LET n   == call.node
             t   == call.tool
             cls == create(t, os[n])
             P   == Positions("probe", cls)
             I   == Positions("install", t)
         IN /\ result # NoTool =>
                 /\ err = NoErr
                 /\ cache[n][t] = result
                 /\ P # {} /\ log[Last(P)].ok
            /\ (P # {} /\ ~log[Last(P)].ok /\ ~can_install(cls)) =>
                 /\ err = MissingCapabilityError(t)
                 /\ cache[n][t] = NoTool
            /\ (I # {} /\ Last(P) > Last(I) /\ ~log[Last(P)].ok) =>
                 /\ err = MissingCapabilityError(t)
                 /\ cache[n][t] = NoTool
            /\ err # NoErr => (result = NoTool /\ cache[n][t] = NoTool)

\* an install procedure ran and its closing probe still missed the tool
C3_Witness ==
    /\ IsResolve(call) /\ ~call.hit
    /\ err = MissingCapabilityError(call.tool)
    /\ Positions("install", call.tool) # {}
    /\ cache[call.node][call.tool] = NoTool

KdumpClasses == {"KdumpRedhat", "KdumpDebian", "KdumpSuse"}

\* the events of the log that belong to the resolution of dependency d
EventsOf(d) ==
    {j \in DOMAIN log :
       \/ log[j].ev \in {"get", "install", "cache"} /\ log[j].what = d
       \/ log[j].ev \in {"create", "probe"} /\ log[j].what = d}

\* C4: in a resolve of the kdump tool, when the kdump variant is probed or
\* installed both Kexec and Makedumpfile are resolved (cached) and every
\* step of their resolution, installs included, lies before it.
C4_DependenciesFirst ==
    (IsResolve(call) /\ call.tool = "Kdump" /\ ~call.hit) =>
      \A i \in DOMAIN log :
        (\/ log[i].ev = "probe" /\ log[i].what \in KdumpClasses
         \/ log[i].ev = "install" /\ log[i].what = "Kdump")
        => \A d \in {"Kexec", "Makedumpfile"} :
             /\ cache[call.node][d] # NoTool
             /\ \A j \in EventsOf(d) : j < i

\* both dependencies were installed in the call that then probed kdump
C4_Witness ==
    /\ IsResolve(call) /\ call.tool = "Kdump" /\ ~call.hit
    /\ Positions("install", "Kexec") # {}
    /\ Positions("install", "Makedumpfile") # {}
    /\ \E i \in DOMAIN log : log[i].ev = "probe" /\ log[i].what \in KdumpClasses

\* C5: on a node whose OS family is none of Redhat, Debian, Suse no kdump
\* variant is ever created or cached, a resolve of kdump returns nothing,
\* and once variant selection is reached (both dependencies resolved) the
\* error is the unsupported-distribution error with the node's OS name and
\* version.
C5_UnsupportedDistro ==
    \A n \in Nodes :
      Family(os[n]) = "Other" =>
        /\ cache[n]["Kdump"] = NoTool
        /\ created[n]["Kdump"] = 0
        /\ (IsResolve(call) /\ call.node = n /\ call.tool = "Kdump") =>
             /\ result = NoTool
             /\ err # NoErr
             /\ (cache[n]["Kexec"] # NoTool /\ cache[n]["Makedumpfile"] # NoTool)
                  => err = [type |-> "UnsupportedDistroException",
                            name |-> os[n].name, version |-> os[n].version,
                            detail |-> ""]

\* variant selection failed on a node of an unknown family
C5_Witness ==
    /\ IsResolve(call) /\ call.tool = "Kdump"
    /\ Family(os[call.node]) = "Other"
    /\ err.type = "UnsupportedDistroException"
    /\ err.name = os[call.node].name

\* C6: the class of a resolved tool depends on the OS family only: two
\* nodes of one family hold instances of the same class, and the kdump class
\* selected and cached is KdumpRedhat, KdumpDebian or KdumpSuse by family,
\* whatever the OS version, the node and the calls made before.
C6_VariantByFamilyOnly ==
    /\ \A n1 \in Nodes, n2 \in Nodes, t \in ToolIds :
         (/\ Family(os[n1]) = Family(os[n2])
          /\ cache[n1][t] # NoTool /\ cache[n2][t] # NoTool)
         => cache[n1][t].cls = cache[n2][t].cls
    /\ \A n \in Nodes :
         cache[n]["Kdump"] # NoTool =>
           cache[n]["Kdump"].cls =
             (CASE Family(os[n]) = "Redhat" -> "KdumpRedhat"
                [] Family(os[n]) = "Debian" -> "KdumpDebian"
                [] Family(os[n]) = "Suse"   -> "KdumpSuse"
                [] OTHER                    -> "none")
    /\ (IsResolve(call) /\ call.tool = "Kdump") =>
         \A i \in DOMAIN log :
           (log[i].ev = "create" /\ log[i].what \in KdumpClasses \cup {Unsupported})
           => log[i].what =
                (CASE Family(os[call.node]) = "Redhat" -> "KdumpRedhat"
                   [] Family(os[call.node]) = "Debian" -> "KdumpDebian"
                   [] Family(os[call.node]) = "Suse"   -> "KdumpSuse"
                   [] OTHER                            -> Unsupported)

\* two nodes of one family with different OS versions both resolved kdump
C6_Witness ==
    \E n1 \in Nodes, n2 \in Nodes :
      /\ n1 # n2
      /\ Family(os[n1]) = Family(os[n2])
      /\ os[n1].version # os[n2].version
      /\ cache[n1]["Kdump"] # NoTool /\ cache[n2]["Kdump"] # NoTool

\* C7: on a Debian-family node kdump resolves to KdumpDebian with the
\* Debian hooks (command kdump-config, service kdump-tools, config file
\* /etc/default/grub.d/kdump-tools.cfg, update command update-grub) and the
\* service it enables is kdump-tools, never kdump; on the other families the
\* service enabled is kdump.
C7_DebianHooks ==
    \A n \in Nodes :
      LET k == cache[n]["Kdump"]
      IN /\ (Family(os[n]) = "Debian" /\ k # NoTool) =>
              /\ k.cls = "KdumpDebian"
              /\ command(k.cls) = "kdump-config"
              /\ service_name(k.cls) = "kdump-tools"
              /\ _get_crashkernel_cfg_file(k.cls, os[n])
                   = "/etc/default/grub.d/kdump-tools.cfg"
              /\ \A efi \in BOOLEAN, m \in CrashkernelValues :
                   _get_crashkernel_update_cmd(k.cls, os[n], efi, m) = "update-grub"
         /\ Family(os[n]) = "Debian" => enabled[n] \subseteq {"kdump-tools"}
         /\ Family(os[n]) # "Debian" => enabled[n] \subseteq {"kdump"}
         /\ (call.op = "enable_kdump_service" /\ call.node = n /\ err = NoErr)
              => enabled[n] # {}

\* the kdump service was enabled on a Debian-family node
C7_Witness ==
    \E n \in Nodes :
      /\ Family(os[n]) = "Debian"
      /\ call.op = "enable_kdump_service" /\ call.node = n
      /\ enabled[n] = {"kdump-tools"}

----------------------------------------------------------------------------
(* Properties of the bounded retry *)

\* what an attempt must do with an answer of the node: the flag check fails
\* with a LisaException unless the flag reads "1"; the NIC info fails with an
\* AssertionError for an interface without VF
C8_Succeeds(op, input) ==
    IF op = "_check_kexec_crash_loaded" THEN input = "1"
    ELSE input \in {"nicsA", "nicsB"}

C8_Value(op, input) ==
    IF op = "_check_kexec_crash_loaded" THEN "None" ELSE input

C8_FailsCaught(op, input) ==
    IF op = "_check_kexec_crash_loaded"
    THEN input \in {"0", "", "no cat", "no variant"}
    ELSE input = "unpaired"

C8_FailureType(op, input) ==
    CASE input = "no cat"       -> "MissingCapabilityError"
      [] input = "no variant"   -> "UnsupportedDistroException"
      [] input = "unpaired"     -> "AssertionError"
      [] input = "probe failed" -> "AssertionError"
      [] OTHER                  -> "LisaException"

\* C8: a call under bounded retry with budget N returns the result of the
\* first attempt that succeeds, after k < N attempts that failed with a
\* caught exception; it raises only after an attempt that failed, with that
\* attempt's own exception, and when that exception is a caught one all N
\* attempts were made.
C8_BoundedRetry ==
    /\ rPc = "returned" =>
         /\ C8_Succeeds(rOp, rInput)
         /\ rResult = C8_Value(rOp, rInput)
         /\ rAttempts \in 1..RetryTries(rOp)
    /\ rPc = "raised" =>
         /\ ~C8_Succeeds(rOp, rInput)
         /\ rErr.type = C8_FailureType(rOp, rInput)
         /\ C8_FailsCaught(rOp, rInput) => rAttempts = RetryTries(rOp)
    /\ rPc = "running" =>
         /\ rAttempts < RetryTries(rOp)
         /\ rAttempts > 0 => C8_FailsCaught(rOp, rInput)

\* every attempt of the budget failed and the last failure was raised
C8_Witness ==
    /\ rPc = "raised"
    /\ rOp = "_check_kexec_crash_loaded"
    /\ rAttempts = 60
    /\ rErr.type = "LisaException"

----------------------------------------------------------------------------
(* Properties of the file poll *)

\* C9: when the first read matches, the poll is over with True after
\* exactly one read and no sleep, at the moment that read ends.
C9_FirstReadMatches ==
    pFirst = "match" =>
      /\ pPc = "done"
      /\ pResult = TRUE
      /\ pReads = 1
      /\ pSleeps = 0
      /\ pNow = pLastDur

\* the first read of a poll matched
C9_Witness == pPc = "done" /\ pFirst = "match" /\ pResult = TRUE

\* C10 (as claimed): a poll that returns False returns no later than one
\* poll interval after the deadline.
C10_WithinOneInterval ==
    (pPc = "done" /\ pResult = FALSE) => pNow - Deadline <= SleepTicks

\* C10 (amended): a poll that returns False made at least one read, none of
\* its reads matched, the elapsed time has reached the timeout, and it
\* returns later than the deadline by less than the duration of its last
\* read plus one poll interval.
C10_WithinLastIteration ==
    (pPc = "done" /\ pResult = FALSE) =>
      /\ pReads >= 1
      /\ pLast = "miss" /\ pFirst = "miss"
      /\ pNow >= Deadline
      /\ pLastCheck = pNow
      /\ pNow - Deadline < pLastDur + SleepTicks

\* a poll returned False more than one interval after the deadline
C10_Witness ==
    /\ pPc = "done" /\ pResult = FALSE
    /\ pNow - Deadline > SleepTicks

----------------------------------------------------------------------------
(* Properties of the file poll as a state machine *)

Polling == pPc = "polling"

Matched == pPc = "done" /\ pResult

TimedOut == pPc = "done" /\ ~pResult

\* a step of the poll, by the state it leaves and the state it enters
PollTransition ==
    \* Matched and TimedOut are terminal
    /\ pPc = "done" => UNCHANGED pollVars
    \* the poll starts in Polling
    /\ pPc = "idle" => pPc' = "polling" /\ pReads' = 0 /\ pNow' = 0
    \* Polling -> Matched only on a matching read
    /\ Polling /\ Matched' =>
         pReads' = pReads + 1 /\ pLast' = "match" /\ pNow < Deadline
    \* a matching read always ends in Matched
    /\ Polling /\ pReads' = pReads + 1 /\ pLast' = "match" => Matched'
    \* Polling -> TimedOut only on timeout expiry, with no read
    /\ Polling /\ TimedOut' => pReads' = pReads /\ pNow >= Deadline
    \* a read that does not match stays in Polling
    /\ Polling /\ pReads' = pReads + 1 /\ pLast' = "miss" => Polling'

\* C11: the poll is a state machine over Polling, Matched and TimedOut: it
\* starts in Polling, Matched and TimedOut are terminal, Polling -> Matched
\* happens on a matching read and Polling -> TimedOut on timeout expiry only,
\* and every poll eventually reaches a terminal state, reported as the
\* boolean True (Matched) or False (TimedOut)
C11_PollStateMachine ==
    /\ [](pPc \in {"idle", "polling", "done"} /\ pResult \in BOOLEAN)
    /\ [][PollTransition]_vars
    /\ (Polling ~> (Matched \/ TimedOut))

\* a poll that missed on several reads and timed out
C11_Witness == TimedOut /\ pReads >= 2 /\ pLast = "miss" /\ pNow >= Deadline

----------------------------------------------------------------------------
(* Properties of check_crashkernel_loaded *)

LoadedEnded == kPc \in {"returned", "raised"}

\* the three conditions on the node
CmdlineHasParameter == Contains(kCmdline, "crashkernel=" \o kArg)

FlagIsOne == kFlagExists /\ kFlag = "1"

MemoryReserved == Contains(kIomem, "Crash kernel")

\* how often a check was made by the call
TimesChecked(what) == Cardinality({i \in DOMAIN kChecks : kChecks[i] = what})

\* C12: check_crashkernel_loaded completes without error if and only if the
\* text crashkernel=<requested value> is in the kernel command line, the flag
\* file exists and reads exactly "1", and the memory map has a "Crash kernel"
\* entry; if one of them does not hold it raises an error
C12_LoadedIffAllThree ==
    LoadedEnded =>
        /\ kPc = "returned" <=>
             (CmdlineHasParameter /\ FlagIsOne /\ MemoryReserved)
        /\ kPc = "returned" <=> kErr = NoErr
        /\ kPc = "raised" => IsInstance(kErr.type, "LisaException")

\* a call that passed all three checks after waiting for the flag
C12_Witness ==
    /\ kPc = "returned"
    /\ rAttempts >= 2
    /\ kChecks[Len(kChecks)] = "iomem"

\* C13: only the flag value check is retried, up to 60 times with a fixed
\* delay, and it succeeds as soon as one attempt reads exactly "1"; a missing
\* command-line parameter, a missing flag file and a missing memory-map entry
\* fail on their first check; the command line is checked before the flag, so
\* a wrong command line fails without any retry wait
C13_OnlyFlagRetried ==
    \* the checks come in the order cmdline, exists, flag..., iomem
    /\ kPc # "idle" => kChecks[1] = "cmdline"
    /\ TimesChecked("cmdline") <= 1
    /\ TimesChecked("exists") <= 1
    /\ TimesChecked("iomem") <= 1
    /\ TimesChecked("flag") = (IF kPc = "idle" THEN 0 ELSE rAttempts)
    /\ rAttempts <= 60
    \* a fixed delay of one second after each failed attempt but the last
    /\ kPc = "flag" => rSlept = rAttempts /\ kChecks[Len(kChecks)] # "iomem"
    /\ LoadedEnded /\ rAttempts > 0 => rSlept = rAttempts - 1
    \* an attempt that reads "1" is the last one
    /\ kPc = "flag" /\ rAttempts > 0 => rInput # "1"
    /\ LoadedEnded /\ rAttempts > 0 /\ rInput = "1" => rPc = "returned"
    \* the flag check gives up only after 60 attempts
    /\ LoadedEnded /\ rAttempts > 0 /\ rInput # "1" =>
         rAttempts = 60 /\ kPc = "raised" /\ TimesChecked("iomem") = 0
    \* the three other failures are immediate
    /\ LoadedEnded /\ ~CmdlineHasParameter =>
         kPc = "raised" /\ kChecks = <<"cmdline">> /\ rAttempts = 0 /\ rSlept = 0
    /\ LoadedEnded /\ CmdlineHasParameter /\ ~kFlagExists =>
         kPc = "raised" /\ kChecks = <<"cmdline", "exists">> /\ rAttempts = 0
                        /\ rSlept = 0
    /\ LoadedEnded /\ CmdlineHasParameter /\ FlagIsOne /\ ~MemoryReserved =>
         kPc = "raised" /\ TimesChecked("iomem") = 1

\* the flag never read "1": the call gave up after its 60th attempt
C13_Witness ==
    /\ kPc = "raised"
    /\ rAttempts = 60
    /\ rSlept = 59
    /\ kFlag = "0"

----------------------------------------------------------------------------
(* Properties of the kdump tool operations *)

\* C14: check_vmcore_exist searches the dump directory the tool instance is
\* configured with at the time of the call (the relocated one once
\* config_dump_path moved it) for a file larger than 10M, issues the search
\* exactly once, and raises an error when none is found; it never retries
C14_VmcoreSearchedOnce ==
    oOp.name = "check_vmcore_exist" =>
        /\ Len(oLog) = 1
        /\ oLog[1].cmd = "find " \o oDumpPath \o " -type f -size +10M"
        /\ oErr # NoErr <=> oDumpPath \notin oVmcore
        /\ oErr # NoErr => oErr.type = "LisaException"

\* the dump directory was relocated and holds no dump, while the default
\* directory holds one: the search fails
C14_Witness ==
    /\ oOp.name = "check_vmcore_exist"
    /\ oDumpPath = relocated_dump_path
    /\ oVmcore = {dump_path}
    /\ oErr # NoErr

\* the operations C20 is about
CommandOps == {"config_crashkernel_memory", "config_dump_path",
               "check_required_kernel_config", "_get_version",
               "_install_from_src"}

\* the i-th command of the last operation exited with a non-zero code
FailedAt(i) == i \in DOMAIN oLog /\ oLog[i].exit # 0

\* C20: every remote command of config_crashkernel_memory, config_dump_path,
\* check_required_kernel_config, the Kexec version query and the source build
\* that exits with a non-zero code makes the operation fail with an error; no
\* operation continues or returns normally after a failed command
C20_FailedCommandFails ==
    oOp.name \in CommandOps =>
        \A i \in DOMAIN oLog :
            FailedAt(i) => oErr # NoErr /\ i = Len(oLog)

----------------------------------------------------------------------------
(* Properties of the lazy initialisation *)

\* one initialize() call, as a step
InitializeStep ==
    LET k == Len(iTrace')
        c == iTrace'[k]
    IN k = Len(iTrace) + 1 =>
         \* the body is invoked exactly when the object is Uninitialized
         /\ c.ran <=> ~iInitialized
         /\ iRuns' = (IF c.ran THEN iRuns + 1 ELSE iRuns)
         \* never again after a successful completion
         /\ iDone >= 1 => ~c.ran /\ c.err = NoErr /\ iInitialized'
         \* a raising body: reset to Uninitialized, the same exception
         /\ c.ran /\ c.body # "ok" =>
              ~iInitialized' /\ c.err = Error(c.body, "") /\ iDone' = iDone
         \* a completing body: Initialized, no error
         /\ c.ran /\ c.body = "ok" =>
              iInitialized' /\ c.err = NoErr /\ iDone' = iDone + 1

----------------------------------------------------------------------------
(* Properties of parse_version *)

WasParsed == vOut # NotParsed

\* the text without a leading v or V and with every separator written "."
Dotted(text) ==
    LET t == IF Len(text) > 0 /\ CharAt(text, 1) \in {"v", "V"}
             THEN SubSeq(text, 2, Len(text)) ELSE text
    IN ReplaceAll(ReplaceAll(t, "-", "."), "_", ".")

\* the numbers of a parsed version
Numbers(v) == <<v.major, v.minor, v.patch>>

\* C16: parse_version accepts a canonical major.minor.patch[-prerelease] text
\* directly and otherwise applies the lenient pattern: "2.0.15" gives
\* (2,0,15), "18.04" gives (18,4,0), "v1.2.3-beta" gives (1,2,3) with
\* prerelease "beta"; the separators may be any of ".", "-", "_" and a
\* leading "v" or "V" is ignored
C16_ParseVersionAccepts ==
    WasParsed =>
        /\ vText = "2.0.15" =>
             vOut.ok /\ Numbers(vOut.value) = <<2, 0, 15>>
                     /\ IsEmpty(vOut.value.prerelease)
        /\ vText = "18.04" =>
             vOut.ok /\ Numbers(vOut.value) = <<18, 4, 0>>
                     /\ IsEmpty(vOut.value.prerelease)
        /\ vText = "v1.2.3-beta" =>
             vOut.ok /\ Numbers(vOut.value) = <<1, 2, 3>>
                     /\ vOut.value.prerelease = "beta"
        \* a canonical text keeps its dotted prerelease and its build
        /\ vText = "1.2.3-rc.1+build" =>
             vOut.ok /\ Numbers(vOut.value) = <<1, 2, 3>>
                     /\ vOut.value.prerelease = "rc.1"
                     /\ vOut.value.build = "build"
        \* two or three numbers, any separators, an optional v or V
        /\ LET parts == Split(Dotted(vText), ".")
           IN (Len(parts) \in {2, 3} /\ \A i \in DOMAIN parts : IsNumber(parts[i]))
                => /\ vOut.ok
                   /\ vOut.value.major = DigitsValue(parts[1])
                   /\ vOut.value.minor = DigitsValue(parts[2])
                   /\ vOut.value.patch =
                        (IF Len(parts) = 3 THEN DigitsValue(parts[3]) ELSE 0)
                   /\ IsEmpty(vOut.value.prerelease)

\* a text with a V, underscores and three numbers was parsed
C16_Witness ==
    /\ vText = "V1_2_3"
    /\ vOut.ok
    /\ Numbers(vOut.value) = <<1, 2, 3>>

HasDigit(text) == \E i \in 1..Len(text) : CharAt(text, i) \in Digits

\* C17: for every text that contains no digit (texts made only of an optional
\* "v", separators and letters included, such as ".-beta") parse_version
\* fails with the format error LisaException and with no other kind of error
C17_NoDigitFormatError ==
    (WasParsed /\ ~HasDigit(vText)) =>
        ~vOut.ok /\ vOut.err.type = "LisaException"

\* a numeric group of the lenient match is missing: absent or empty
Missing(group) == group = NoneValue \/ group = ""

\* C18: for every text the lenient pattern matches, each numeric component
\* (major, minor, patch) that is missing from the text, its group absent or
\* matched as the empty text (as in "1." or "1.2-"), is zero in the returned
\* version; stated for the texts that hold a digit
C18_MissingComponentZero ==
    LET m == LenientMatch(vText)
    IN (WasParsed /\ HasDigit(vText) /\ ~VersionInfo_isvalid(vText) /\ m.matched) =>
         /\ vOut.ok
         /\ Missing(m.major) => vOut.value.major = 0
         /\ Missing(m.minor) => vOut.value.minor = 0
         /\ Missing(m.patch) => vOut.value.patch = 0

----------------------------------------------------------------------------
(* Properties of the version ordering *)

\* the numbers of v come before the numbers of w: major, then minor, then patch
NumbersBefore(v, w) ==
    \/ v.major < w.major
    \/ v.major = w.major /\ v.minor < w.minor
    \/ v.major = w.major /\ v.minor = w.minor /\ v.patch < w.patch

\* C19: the version ordering is the semantic-version precedence: major, then
\* minor, then patch, each compared as numbers (2.0.9 < 2.0.15 and
\* (2,0,14) < (2,0,15) < (2,0,16)); a version with a prerelease comes strictly
\* before the same major.minor.patch without one ((1,0,0,"rc1") < (1,0,0));
\* the order is total and transitive
C19_VersionOrdering ==
    vCmp.done =>
        LET a == vVersions[1]
            b == vVersions[2]
            c == vVersions[3]
        IN /\ NumbersBefore(a, b) => vCmp.ab < 0
           /\ NumbersBefore(b, a) => vCmp.ab > 0
           /\ (Numbers(a) = Numbers(b) /\ ~IsEmpty(a.prerelease)
                  /\ IsEmpty(b.prerelease)) => vCmp.ab < 0
           /\ (Numbers(a) = Numbers(b) /\ a.prerelease = b.prerelease)
                  => vCmp.ab = 0
           /\ (Numbers(a) = <<2, 0, 9>> /\ Numbers(b) = <<2, 0, 15>>)
                  => vCmp.ab < 0
           /\ (a = VersionInfo(2, 0, 14, NoneValue, NoneValue)
                  /\ b = VersionInfo(2, 0, 15, NoneValue, NoneValue)
                  /\ c = VersionInfo(2, 0, 16, NoneValue, NoneValue))
                  => vCmp.ab < 0 /\ vCmp.bc < 0 /\ vCmp.ac < 0
           /\ (a = VersionInfo(1, 0, 0, "rc1", NoneValue)
                  /\ b = VersionInfo(1, 0, 0, NoneValue, NoneValue))
                  => vCmp.ab < 0
           \* total: any two versions are ordered one way or are equal
           /\ vCmp.ab \in {-1, 0, 1}
           /\ vCmp.ba = 0 - vCmp.ab
           \* transitive
           /\ (vCmp.ab <= 0 /\ vCmp.bc <= 0) => vCmp.ac <= 0
           /\ (vCmp.ab <= 0 /\ vCmp.bc <= 0 /\ (vCmp.ab < 0 \/ vCmp.bc < 0))
                  => vCmp.ac < 0

\* 2.0.9, then 2.0.15-rc1, then 2.0.15 were compared
C19_Witness ==
    /\ vCmp.done
    /\ vVersions = <<VersionInfo(2, 0, 9, NoneValue, NoneValue),
                     VersionInfo(2, 0, 15, "rc1", NoneValue),
                     VersionInfo(2, 0, 15, NoneValue, NoneValue)>>
    /\ vCmp.ab < 0 /\ vCmp.bc < 0 /\ vCmp.ac < 0

----------------------------------------------------------------------------
(* Properties of the bounded retry: errors that must not be retried *)

\* the last attempt raised an unsupported-distribution error
RaisedUnsupported == rAttempts > 0 /\ rInput = "no variant"

----------------------------------------------------------------------------
(* Properties of parse_version: the text after the version *)

\* the text that follows the third number of a text and a separator, "" when
\* the text does not have three numbers followed by a separator
AfterThirdNumber(text) ==
    LET s0 == IF Len(text) > 0 /\ CharAt(text, 1) \in {"v", "V"}
              THEN SubSeq(text, 2, Len(text)) ELSE text
        j  == DigitRun(s0)
        s1 == SubSeq(s0, j + 2, Len(s0))
        k  == DigitRun(s1)
        s2 == SubSeq(s1, k + 2, Len(s1))
        d  == DigitRun(s2)
        s3 == SubSeq(s2, d + 2, Len(s2))
    IN IF /\ j > 0 /\ j < Len(s0) /\ CharAt(s0, j + 1) \in Separators
          /\ k > 0 /\ k < Len(s1) /\ CharAt(s1, k + 1) \in Separators
          /\ d > 0 /\ d < Len(s2) /\ CharAt(s2, d + 1) \in Separators
       THEN s3 ELSE ""

\* what is left of a text after its longest prefix of dotted identifiers
Unmatched(text) ==
    SubSeq(text, FirstOf(text, {CharAt(text, i) : i \in 1..Len(text)}
                                 \ (IdChars \cup {"."})),
           Len(text))

\* C22: text of the input that the lenient pattern does not match as major,
\* minor, patch or prerelease is kept in the build field: for a text with
\* three numbers followed by identifiers and then other text (as in
\* "10.0.22000.100 extra") that other text is in build and in no other field
C22_TrailingTextInBuild ==
    LET rest == Unmatched(AfterThirdNumber(vText))
    IN (WasParsed /\ ~VersionInfo_isvalid(vText) /\ rest # "") =>
         /\ vOut.ok
         /\ Contains(vOut.value.build, rest)
         /\ ~Contains(vOut.value.prerelease, rest)

----------------------------------------------------------------------------
(* Properties of the bounded retry: the budget and the catch set *)

\* the call is over
RetryEnded == rPc \in {"returned", "raised"}

\* the last attempt failed with an exception outside the declared catch set:
\* an AssertionError in the flag check (LisaException only), a LisaException
\* of any kind in initialize_nic_info (AssertionError only)
FailedOutsideCatchSet ==
    /\ rAttempts > 0
    /\ \/ rOp = "_check_kexec_crash_loaded" /\ rInput = "probe failed"
       \/ rOp = "initialize_nic_info" /\ rInput \in {"init failed", "no variant"}

\* C23: the bounded retry invokes the operation at most N times in total,
\* never invokes it again after an attempt succeeded, and does not retry an
\* exception outside the declared catch set: such an exception reaches the
\* caller from the attempt that raised it
C23_RetryBudgetAndCatchSet ==
    /\ [](rAttempts <= RetryTries(rOp))
    /\ [](rPc = "returned" => C8_Succeeds(rOp, rInput))
    /\ [][RetryEnded => (rAttempts' = rAttempts /\ RetryEnded')]_vars
    /\ [](FailedOutsideCatchSet =>
            /\ rPc = "raised"
            /\ rErr.type = C8_FailureType(rOp, rInput)
            /\ rErr.type # RetryExceptions(rOp))
    /\ [][(FailedOutsideCatchSet' /\ rAttempts' = rAttempts + 1) =>
            (RetryEnded' /\ rTries' = rTries /\ rSlept' = rSlept)]_vars

\* the flag check failed twice with a caught error, then an assertion failed
\* and reached the caller from the third attempt
C23_Witness ==
    /\ rOp = "_check_kexec_crash_loaded"
    /\ rPc = "raised"
    /\ rInput = "probe failed"
    /\ rAttempts = 3
    /\ rErr.type = "AssertionError"

----------------------------------------------------------------------------
(* Properties of the file poll: soundness of the result *)

\* a read of content v matches what the caller expects
ReadMatches(v) ==
    \/ pExpected.list /\ v \in pExpected.values
    \/ ~pExpected.list /\ pExpected.value # NoneValue /\ v = pExpected.value

\* a step of the poll that reads the file
PollReadStep ==
    \A d \in 0..MaxReadTicks, v \in FileValues :
        PollIterate(d, v) =>
            \* the read starts before the deadline
            /\ pNow < Deadline
            \* a matching read returns True at once, another read returns nothing
            /\ ReadMatches(v) => (Matched' /\ pLast' = "match")
            /\ ~ReadMatches(v) => (Polling' /\ pLast' = "miss")

\* C24: the poll result is sound: it returns True only if its last read
\* matched (equality with a single expected value, membership in an expected
\* list); it returns False only if every read it made did not match; and it
\* makes no read after the deadline has passed
C24_PollResultSound ==
    /\ [][PollReadStep]_vars
    \* only a read step reads, and only a read step returns True
    /\ [][(pReads' # pReads \/ (Matched' /\ ~Matched)) =>
            \E d \in 0..MaxReadTicks, v \in FileValues : PollIterate(d, v)]_vars
    \* nothing is read once the poll has returned
    /\ [][pPc = "done" => UNCHANGED pollVars]_vars
    /\ [](Matched => pLast = "match" /\ pReads >= 1)
    /\ [](TimedOut => pLast # "match" /\ pFirst # "match" /\ pNow >= Deadline)
    /\ [](Polling => pLast # "match")

\* a poll for a list of values returned True on a later read
C24_Witness ==
    /\ Matched
    /\ pExpected.list
    /\ pReads >= 2
    /\ pFirst = "miss" /\ pLast = "match"

----------------------------------------------------------------------------
(* Properties of the reads through the result cache *)

\* the reads a verification, a retry attempt or a poll iteration relies on
CheckedSites == {"flag", "cmdline", "iomem", "poll", "post-edit"}

\* C25: every read that a verification, a retry attempt or a poll iteration
\* relies on bypasses the command result cache: each attempt of the flag
\* check, each poll iteration, the command-line and memory-map checks and the
\* post-edit read of the bootloader config get the node's current content,
\* whatever an earlier read has cached
C25_ReadsBypassCache ==
    [][\A site \in CheckedSites :
          CatRead(site) => (cRead'.stdout = cContent /\ cCached' = cContent)]_vars

\* the flag was read as "0", turned "1" on the node, and the next attempt
\* read "1"
C25_Witness ==
    /\ cRead.site = "flag"
    /\ cRead.before = "0"
    /\ cRead.stdout = "1"
    /\ cContent = "1"

----------------------------------------------------------------------------
(* Properties of the registry: one cache per node *)

\* what the registry and the installs keep about node m
NodeView(m) ==
    <<cache[m], present[m], kexecVersion[m], created[m], installs[m], enabled[m]>>

\* C26: the tool caches of different nodes are independent: a resolve call on
\* one node, successful or failing, adds or changes no entry in any other
\* node's cache and runs no install on any other node
C26_NodeCachesIndependent ==
    [][\A n \in Nodes :
         (ncalls' = ncalls + 1 /\ IsResolve(call') /\ call'.node = n) =>
            /\ \A m \in Nodes \ {n} : NodeView(m)' = NodeView(m)
            \* what the call cached belongs to the node it was made on
            /\ \A t \in ToolIds :
                 cache'[n][t] # cache[n][t] => cache'[n][t].node = n]_vars

\* a resolve failed on n2 and cached nothing while n1 keeps its cached tool
C26_Witness ==
    /\ IsResolve(call) /\ call.node = "n2"
    /\ err # NoErr
    /\ \E t \in ToolIds : cache["n1"][t] # NoTool
    /\ \A t \in ToolIds : cache["n2"][t] = NoTool

----------------------------------------------------------------------------
(* Properties of config_crashkernel_memory *)

\* the last operation was config_crashkernel_memory
Configured == oOp.name = "config_crashkernel_memory"

\* the config file of the node's kdump tool ("": none applies)
oCfgFile == _get_crashkernel_cfg_file(oCls, oOs)

\* the i-th command of the last operation is the bootloader update
IsUpdate(i) ==
    \E efi \in BOOLEAN :
        oLog[i].cmd = _get_crashkernel_update_cmd(oCls, oOs, efi, oOp.arg)

IsSed(i) == StartsWith(oLog[i].cmd, "sed ")

IsCat(i) == oLog[i].cmd = "cat " \o oCfgFile

Updates == {i \in DOMAIN oLog : IsUpdate(i)}

\* C27: config_crashkernel_memory runs the bootloader update command only
\* after the edit of the config file was verified: when a config file
\* applies, the file must exist, is edited and re-read, and if the re-read
\* content does not hold crashkernel=<value> the operation raises an error and
\* the update command is not run; on success the update command was run
\* exactly once, with elevated privileges, and exited with code 0
C27_UpdateAfterVerifiedEdit ==
    Configured =>
        \* at most one update, and nothing after it
        /\ Cardinality(Updates) <= 1
        /\ \A i \in Updates : i = Len(oLog) /\ oLog[i].sudo
        \* a failed update fails the operation
        /\ \A i \in Updates : oLog[i].exit # 0 => oErr.type = "AssertionError"
        \* success means one update that worked
        /\ oErr = NoErr => \E i \in Updates : oLog[i].exit = 0
        /\ oCfgFile # "" =>
             \* a missing file fails the operation before any command
             /\ ~oCfgExists => (oErr.type = "AssertionError" /\ oLog = <<>>)
             \* the update follows an edit that worked and a re-read that
             \* shows the value, which is what the file holds
             /\ \A i \in Updates :
                  /\ i >= 3
                  /\ IsSed(i - 2) /\ oLog[i - 2].sudo /\ oLog[i - 2].exit = 0
                  /\ IsCat(i - 1)
                  /\ InFile(oLog[i - 1].out, "crashkernel=" \o oOp.arg)
                  /\ oLog[i - 1].out = oCfg
             \* a re-read without the value raises and nothing is updated
             /\ (Len(oLog) >= 2 /\ IsCat(Len(oLog)) /\ IsSed(Len(oLog) - 1)
                   /\ ~InFile(oLog[Len(oLog)].out, "crashkernel=" \o oOp.arg))
                  => (oErr.type = "LisaException" /\ Updates = {})

\* every command worked, the edited file does not show the value: the call
\* raised and ran no update
C27_Witness ==
    /\ Configured
    /\ oCfgFile # ""
    /\ oErr.type = "LisaException"
    /\ \A i \in DOMAIN oLog : oLog[i].exit = 0
    /\ Len(oLog) >= 2 /\ IsSed(Len(oLog) - 1) /\ IsCat(Len(oLog))
    /\ Updates = {}

\* where a crashkernel= parameter starts in a line
Parameters(line) ==
    {i \in 1..Len(line) : StartsWith(SubSeq(line, i, Len(line)), "crashkernel=")}

\* the value of the parameter that starts at position i of a line
ValueAt(line, i) ==
    LET after == SubSeq(line, i + 12, Len(line))
    IN SubSeq(after, 1, Len(after) - Len(SkipValue(after)))

\* the kernel command lines of a config file
CommandLines(lines) ==
    {i \in DOMAIN lines : StartsWith(lines[i], "GRUB_CMDLINE_LINUX=")}

\* the kernel command line of the file carries one crashkernel= parameter,
\* and it holds the value
OneCrashkernel(lines, value) ==
    /\ CommandLines(lines) # {}
    /\ \A i \in CommandLines(lines) :
         /\ Cardinality(Parameters(lines[i])) = 1
         /\ \A k \in Parameters(lines[i]) : ValueAt(lines[i], k) = value

\* a config file is edited and config_crashkernel_memory returned normally
ConfiguredFile == Configured /\ oCfgFile # "" /\ oErr = NoErr

\* C28: after a sequence of successful config_crashkernel_memory calls the
\* kernel command line of the config file carries exactly one crashkernel=
\* parameter, with the value of the last call: a successful call on a file
\* that was not configured yet, or that earlier successful calls left with one
\* parameter, leaves it with one parameter holding the call's value
C28_OneCrashkernelParameter ==
    [][ (/\ oCalls = 0 \/ (ConfiguredFile /\ OneCrashkernel(oCfg, oOp.arg))
         /\ ConfiguredFile')
        => OneCrashkernel(oCfg', oOp'.arg) ]_vars

----------------------------------------------------------------------------
(* Properties of the Redhat hooks *)

\* the hooks of a Redhat node switch at version w: from w on there is no
\* config file, config_crashkernel_memory runs nothing but the grubby command
\* with its value; below w the file is /etc/default/grub and the update is
\* grub2-mkconfig, to the EFI path exactly when /sys/firmware/efi exists
HooksSwitchAt(w) ==
    oCls = "KdumpRedhat" =>
        IF compare(OsVersion(oOs), w) >= 0
        THEN /\ oCfgFile = ""
             /\ \A m \in CrashkernelValues, efi \in BOOLEAN :
                  _get_crashkernel_update_cmd(oCls, oOs, efi, m)
                    = "grubby --update-kernel=ALL --args=\"crashkernel="
                      \o m \o "\""
             /\ Configured =>
                  /\ Len(oLog) = 1
                  /\ oLog[1].cmd = "grubby --update-kernel=ALL --args=\"crashkernel="
                                   \o oOp.arg \o "\""
                  /\ oCatCache = NoCache
        ELSE /\ oCfgFile = "/etc/default/grub"
             /\ \A m \in CrashkernelValues :
                  /\ _get_crashkernel_update_cmd(oCls, oOs, TRUE, m)
                       = "grub2-mkconfig -o /boot/efi/EFI/redhat/grub.cfg"
                  /\ _get_crashkernel_update_cmd(oCls, oOs, FALSE, m)
                       = "grub2-mkconfig -o /boot/grub2/grub.cfg"
             /\ (Configured /\ oErr = NoErr) =>
                  /\ \E i \in DOMAIN oLog : IsCat(i)
                  /\ \E i \in DOMAIN oLog : IsSed(i)
                  /\ StartsWith(oLog[Len(oLog)].cmd, "grub2-mkconfig -o ")

\* C29: the Redhat hooks switch at 8.0.0: grubby and no config file for
\* every version at or above 8.0.0, /etc/default/grub and grub2-mkconfig for
\* every version below 8.0.0
C29_RedhatHooksSwitchAtRelease ==
    HooksSwitchAt(VersionInfo(8, 0, 0, NoneValue, NoneValue))

\* C29, amended: the Redhat hooks switch at 8.0.0-0, the lowest prerelease of
\* 8.0.0: grubby and no config file for every version at or above 8.0.0-0,
\* every prerelease of 8.0.0 included; /etc/default/grub and grub2-mkconfig
\* for every version below 8.0.0-0
C29_RedhatHooksSwitchAtPrerelease ==
    HooksSwitchAt(VersionInfo(8, 0, 0, "0", NoneValue))

\* a prerelease of 8.0.0 was configured with grubby alone
C29_Witness ==
    /\ oCls = "KdumpRedhat"
    /\ oOs.version = <<8, 0, 0>>
    /\ OsVersion(oOs).prerelease = "rc1"
    /\ Configured
    /\ oErr = NoErr
    /\ Len(oLog) = 1
    /\ StartsWith(oLog[1].cmd, "grubby ")

----------------------------------------------------------------------------
(* Properties of config_dump_path *)

\* the step is a call of config_dump_path
DumpPathCall == oCalls' = oCalls + 1 /\ oOp'.name = "config_dump_path"

\* what the memory query of the call printed
ReportedMemory == IF oLog' = <<>> THEN "" ELSE oLog'[1].out

\* the call is made on a Redhat variant whose memory is more than 1Ti
MoreThan1Ti == oCls = "KdumpRedhat" /\ ReportedMemory \in {"1.5Ti", "2Ti"}

\* the path entries of a kdump configuration that are in force
PathEntries(conf) == {conf[i] : i \in {k \in DOMAIN conf : StartsWith(conf[k], "path")}}

\* C30: config_dump_path moves the dump directory from /var/crash to
\* /mnt/crash only on the Redhat variant and only when the memory is reported
\* in Ti with a value above 1; a call that then returns has created the
\* directory and replaced the path entry of the kdump configuration; with
\* another variant, a memory not in Ti or exactly 1Ti, dump_path and the kdump
\* configuration stay as they were
C30_DumpPathRelocation ==
    [][ DumpPathCall =>
          /\ oDumpPath' # oDumpPath =>
               (MoreThan1Ti /\ oDumpPath = "/var/crash" /\ oDumpPath' = "/mnt/crash")
          /\ (MoreThan1Ti /\ oErr' = NoErr) =>
               /\ oDumpPath' = "/mnt/crash"
               /\ \E i \in DOMAIN oLog' :
                    /\ oLog'[i].cmd = "mkdir -p /mnt/crash"
                    /\ oLog'[i].sudo /\ oLog'[i].exit = 0
               /\ PathEntries(oConf') = {"path /mnt/crash"}
               /\ \A i \in DOMAIN oConf :
                    StartsWith(oConf[i], "path") => oConf'[i] = "#" \o oConf[i]
          /\ ~MoreThan1Ti =>
               (oErr' = NoErr /\ oDumpPath' = oDumpPath /\ oConf' = oConf) ]_vars

\* a Redhat node with 1.5Ti was relocated
C30_Witness ==
    /\ oOp.name = "config_dump_path"
    /\ oCls = "KdumpRedhat"
    /\ oLog # <<>> /\ oLog[1].out = "1.5Ti"
    /\ oErr = NoErr
    /\ oDumpPath = "/mnt/crash"
    /\ oConf = <<"#path /var/crash", "path /mnt/crash">>

----------------------------------------------------------------------------
(* Properties of Kexec._install *)

\* the last call was kexec._install()
KexecInstalled == call.op = "_install"

\* where the events of a kind are in the log of the last call
LoggedAt(ev) == {i \in DOMAIN log : log[i].ev = ev}

\* the package manager brought a kexec older than 2.0.15
PackagedOld ==
    /\ "kexec-tools" \in call.env.works
    /\ call.env.pkgVer \in {<<2, 0, 14>>}

\* kexec -v answered with the version
VersionRead == "kexec-tools" \in call.env.works /\ call.env.query = "ok"

\* the install reported success: its closing probe found kexec
InstallSucceeded ==
    /\ err = NoErr
    /\ log # <<>>
    /\ log[Len(log)] = Event("probe", "Kexec", TRUE)

\* C31: kexec._install installs the system package first and builds from
\* source exactly when the node is of the Debian family and the packaged
\* version is below 2.0.15; when it reports success on a Debian node, the
\* node's kexec is at 2.0.15 or later
C31_KexecBuiltWhenOutdated ==
    KexecInstalled =>
        LET o == os[call.node]
        IN /\ IsPosix(o) =>
                /\ log # <<>>
                /\ log[1].ev = "install_packages" /\ log[1].what = "kexec-tools"
                /\ Cardinality(LoggedAt("install_packages")) = 1
           /\ ~IsPosix(o) => (log = <<>> /\ err.type = "AssertionError")
           /\ Cardinality(LoggedAt("build")) <= 1
           /\ LoggedAt("build") # {} =>
                (Family(o) = "Debian" /\ VersionRead /\ PackagedOld)
           /\ (Family(o) = "Debian" /\ VersionRead /\ PackagedOld) =>
                LoggedAt("build") # {}
           /\ (Family(o) = "Debian" /\ InstallSucceeded) =>
                /\ kexecVersion[call.node] \in {<<2, 0, 15>>, <<2, 0, 16>>, <<2, 0, 18>>}
                /\ PackagedOld => kexecVersion[call.node] = <<2, 0, 18>>

\* a Debian node whose package brought 2.0.14 was built from source
C31_Witness ==
    /\ KexecInstalled
    /\ Family(os[call.node]) = "Debian"
    /\ PackagedOld
    /\ InstallSucceeded
    /\ \E i \in LoggedAt("build") : log[i].ok
    /\ kexecVersion[call.node] = <<2, 0, 18>>

----------------------------------------------------------------------------
(* Properties of find_patterns_groups_in_lines *)

FindReturned == uIn.fn = "find_patterns_groups_in_lines" /\ uOut.done

RECURSIVE GroupsOf(_, _)
\* the group dictionaries of the lines a pattern matches, in line order
GroupsOf(pattern, lines) ==
    IF lines = <<>> THEN <<>>
    ELSE (IF StartsWith(Head(lines), pattern.prefix)
          THEN <<groupdict(pattern, Head(lines))>> ELSE <<>>)
         \o GroupsOf(pattern, Tail(lines))

\* C32: find_patterns_groups_in_lines returns one list per pattern, and the
\* list at index i holds exactly the group dictionaries of the lines that
\* pattern i matched, in line order
C32_OneListPerPattern ==
    FindReturned =>
        /\ Len(uOut.value) = Len(uIn.patterns)
        /\ \A i \in DOMAIN uOut.value :
             uOut.value[i] = GroupsOf(uIn.patterns[i], splitlines(uIn.lines))

----------------------------------------------------------------------------
(* Properties of deep_update_dict *)

DeepUpdated == uIn.fn = "deep_update_dict" /\ uOut.done

RECURSIVE Merged(_, _)
\* the merge of two dictionaries: the keys of both; the value of src unless
\* the key is in dest only; where both values are dictionaries, their merge
Merged(src, dest) ==
    PyDict([key \in DOMAIN dest.items \cup DOMAIN src.items |->
              IF key \notin DOMAIN src.items THEN dest.items[key]
              ELSE IF key \notin DOMAIN dest.items THEN src.items[key]
              ELSE IF src.items[key].kind = "dict" /\ dest.items[key].kind = "dict"
              THEN Merged(src.items[key], dest.items[key])
              ELSE src.items[key]])

\* C33: deep_update_dict(src, dest) returns the merge of the two: every key
\* found only in dest kept, every key of src present with src's value where
\* that is not a mapping, the recursive merge where both values are mappings,
\* and src's mapping where dest's value is not a mapping, whatever kind of
\* value that is
C33_DeepUpdateMerges ==
    DeepUpdated =>
        /\ uOut.value.ok
        /\ uOut.value.value = Merged(uIn.src, uIn.dest)

----------------------------------------------------------------------------
(* Properties of overlapping initialize() calls *)

\* the calls that returned without raising
ReturnedCalls == {k \in DOMAIN iTrace : iTrace[k].pc = "returned"}

\* C34: whenever initialize() returns without raising, the body has completed
\* successfully before: no call, a call made while the body of an earlier
\* call is still running included, returns normally before a successful
\* completion of the body
C34_ReturnMeansInitialized ==
    \A k \in ReturnedCalls : iTrace[k].done >= 1

----------------------------------------------------------------------------
(* Properties of the network test helpers *)

ConnectionTested == uIn.fn = "sriov_vf_connection_test" /\ uOut.done

\* the steps of the test
TestSteps == uOut.value.steps

\* the interfaces of both nodes by kind
SyntheticNics == {uIn.source[i].upper : i \in DOMAIN uIn.source}

VfNics == {uIn.source[i].lower : i \in DOMAIN uIn.source}

\* C35: in sriov_vf_connection_test with turn_off_vf set, every VF interface
\* the test brings down is brought up again before the test ends, on each of
\* its exits, failures of the ping, copy and packet-count checks included; and
\* the packet counters are read from the synthetic interface exactly when
\* turn_off_vf or remove_module is set, from the VF interface otherwise
C35_VfRestoredAndCounters ==
    ConnectionTested =>
        /\ \A i \in DOMAIN TestSteps :
             TestSteps[i].what = "down" =>
               \E j \in DOMAIN TestSteps :
                 /\ j > i
                 /\ TestSteps[j] = Step(TestSteps[i].node, "up", TestSteps[i].nic)
        /\ \A i \in DOMAIN TestSteps :
             TestSteps[i].what \in {"tx_packets", "rx_packets"} =>
               IF uIn.turn_off_vf \/ uIn.remove_module
               THEN TestSteps[i].nic \in SyntheticNics
               ELSE TestSteps[i].nic \in VfNics

NicsRemoved == uIn.fn = "remove_extra_nics" /\ uOut.done

\* C36: remove_extra_nics removes the extra network interfaces of every node
\* of the environment: with n nodes, the removal is invoked once on each of
\* the n nodes
C36_RemovedOnEveryNode ==
    NicsRemoved =>
        /\ \A n \in DOMAIN uIn.extra :
             Cardinality({i \in DOMAIN uOut.value.calls : uOut.value.calls[i] = n}) = 1
        /\ \A n \in DOMAIN uIn.extra : uOut.value.extra[n] = 0

====
